---- MODULE Spec2Model ----
(***************************************************************************)
(* Model of the article-processing pipeline (process_articles_fast.py and  *)
(* data-pipeline/process_articles_parallel.py) and of the research-run     *)
(* backend (backend/app/api/research.py, backend/app/services/research.py) *)
(***************************************************************************)
EXTENDS Integers, Sequences, FiniteSets, TLC

(* ------------------------------ bounds --------------------------------- *)
NumFiles == 6
MaxRuns == 2
MaxFaults == 3
MaxKills == 1
MaxWriteFailures == 1
MaxRequests == 3
KillBatch == 3
WaveSize == 4
MaxMolecules == 2
MaxPasses == 2
MaxEntities == 2
MaxKeywords == 1
MaxInserts == 2

(* -------------------------- program constants -------------------------- *)
MAX_CONCURRENT_ARTICLES == 3
MAX_API_CALLS_PER_SECOND == 10
MAX_CONCURRENT_ARTICLES_PARALLEL == 5
MIN_BODY_LENGTH == 500
max_retries == 3
BACKOFF_BASE == 10
max_chars == 300000
SIGNIFICANT_LENGTH == 3

Files == 1..NumFiles
Stages == 1..4
Pmids == 1..NumFiles
NoPmid == 0
Variants == {"fast", "parallel"}

Min(a, b) == IF a < b THEN a ELSE b

RECURSIVE Pow2(_)
Pow2(n) == IF n = 0 THEN 1 ELSE 2 * Pow2(n - 1)

(* A text is represented by an identifying token and its length.           *)
Text(id, len) == [id |-> id, len |-> len]
EmptyText == Text("", 0)

(* ------------------------------ inputs --------------------------------- *)
(* One input document: its file name "<stem><tag><digits>.xml" with the    *)
(* name's length, whether it is well-formed XML, and its three sections.   *)
Doc(stem, tag, digits, nameLen, wellFormed, bodyLen) ==
    [name |-> [stem |-> stem, tag |-> tag, digits |-> digits, len |-> nameLen],
     wellFormed |-> wellFormed,
     title |-> Text("title", 12), abstract |-> Text("abstract", 40),
     body |-> IF bodyLen = 0 THEN EmptyText ELSE Text("body", bodyLen)]

(* The input directory, in the order glob lists it: a name without a PMID, *)
(* two files whose names carry the same PMID (the first with a body of     *)
(* exactly the minimum length), a body one character too short, a          *)
(* malformed document, and ordinary articles from there on.                *)
InputDoc(f) ==
    CASE f = 1 -> Doc("notes", "", 0, 9, TRUE, 600)
      [] f = 2 -> Doc("PMC101_", "PMID", 1, 16, TRUE, MIN_BODY_LENGTH)
      [] f = 3 -> Doc("PMC2002_", "PMID", 1, 17, TRUE, 600)
      [] f = 4 -> Doc("PMC104_", "PMID", 2, 16, TRUE, MIN_BODY_LENGTH - 1)
      [] f = 5 -> Doc("PMC105_", "PMID", 3, 16, FALSE, 600)
      [] OTHER -> Doc("PMC100_", "PMID", f - 2, 16, TRUE, 600)
xml == [f \in Files |-> InputDoc(f)]

(* ---------------------------- pure functions --------------------------- *)
(* re.search(r'PMID(\d+)', filename)                                       *)
extract_pmid_from_filename(name) ==
    IF name.tag = "PMID" THEN name.digits ELSE NoPmid

(* clean_xml_text: the three sections, or the all-empty tuple when the     *)
(* document does not parse.                                                *)
clean_xml_text(doc) ==
    IF doc.wellFormed
    THEN [title |-> doc.title, abstract |-> doc.abstract, body |-> doc.body]
    ELSE [title |-> EmptyText, abstract |-> EmptyText, body |-> EmptyText]

(* A body check that only rejects the empty body.                          *)
InsufficientText_empty_only(secs) == secs.body.len = 0
(* "not text_sections['body'] or len(text_sections['body']) < 500"         *)
InsufficientText(secs) == secs.body.len = 0 \/ secs.body.len < MIN_BODY_LENGTH

(* f"Title: {title}\n\nAbstract: {abstract}\n\n{body}"                     *)
full_text(secs) ==
    Text("full", 21 + secs.title.len + secs.abstract.len + secs.body.len)

(* stage1 of the parallel processor builds its own combined text and       *)
(* truncates it to max_chars with a 21-character marker.                   *)
combined_text(secs) ==
    LET len == 32 + secs.title.len + secs.abstract.len + secs.body.len
    IN  IF len > max_chars THEN Text("combined-truncated", max_chars + 21)
        ELSE Text("combined", len)

(* ------------------------------ replies -------------------------------- *)
(* What the LLM answers to the prompt of stage s when the request succeeds *)
(* with a well-formed answer, and when it answers prose without any JSON.  *)
GoodReply(s) ==
    CASE s = 1 -> [shape |-> "prose", text |-> Text("cleaned", 550)]
      [] s = 2 -> [shape |-> "prose", text |-> Text("summary", 300)]
      [] s = 3 -> [shape |-> "array", items |-> <<"nitrate", "fumarate">>]
      [] s = 4 -> [shape |-> "object", topics |-> <<"methane-reduction">>,
                   keywords |-> <<"volatile fatty acids">>]
ProseReply == [shape |-> "prose", text |-> Text("sorry", 30)]
(* The empty string call_claude returns when it gives up.                  *)
EmptyReply == [shape |-> "prose", text |-> EmptyText]

(* The text of a reply: response.content[0].text                           *)
ReplyText(reply) ==
    CASE reply.shape = "prose" -> reply.text
      [] reply.shape = "array" -> Text("json-array", 24)
      [] reply.shape = "object" -> Text("json-object", 80)

TextValue(t) == [kind |-> "text", text |-> t]
ListValue(items) == [kind |-> "list", items |-> items]
DictValue(pmid, topics, keywords) ==
    [kind |-> "dict", pmid |-> pmid, topics |-> topics, keywords |-> keywords]
ExceptionValue == [kind |-> "exception"]
Pending == [kind |-> "pending"]

(* The except clause of each stage executor of the parallel processor.     *)
stage_except(s, secs, pmid) ==
    CASE s = 1 -> TextValue(combined_text(secs))
      [] s = 2 -> TextValue(EmptyText)
      [] s = 3 -> ListValue(<<>>)
      [] s = 4 -> DictValue(pmid, <<>>, <<>>)

(* What a stage executor returns for the reply that reached it: stages 1   *)
(* and 2 return the text, stage 3 the array found in it, stage 4 the       *)
(* object found in it.                                                     *)
StageParse(s, reply, pmid) ==
    CASE s \in {1, 2} -> TextValue(ReplyText(reply))
      [] s = 3 -> IF reply.shape = "array" THEN ListValue(reply.items)
                  ELSE ListValue(<<>>)
      [] s = 4 -> IF reply.shape = "object"
                  THEN DictValue(pmid, reply.topics, reply.keywords)
                  ELSE DictValue(pmid, <<>>, <<>>)

(* A retry loop that lets the last failure propagate to the caller.        *)
call_claude_step_raising(attempt, signal, reply) ==
    CASE signal = "ok" -> [do |-> "return", reply |-> reply]
      [] signal = "throttle" ->
            IF attempt < max_retries - 1
            THEN [do |-> "sleep", wait |-> BACKOFF_BASE * Pow2(attempt)]
            ELSE [do |-> "raise"]
      [] signal = "error" -> [do |-> "raise"]

(* One iteration of the retry loop of call_claude: what the loop does with *)
(* the signal of attempt number attempt (0-based).                         *)
call_claude_step(attempt, signal, reply) ==
    CASE signal = "ok" -> [do |-> "return", reply |-> reply]
      [] signal = "throttle" ->
            IF attempt < max_retries - 1
            THEN [do |-> "sleep", wait |-> BACKOFF_BASE * Pow2(attempt)]
            ELSE [do |-> "return", reply |-> EmptyReply]
      [] signal = "error" -> [do |-> "return", reply |-> EmptyReply]

(* The value a stage hands to gather for the outcome of an LLM request    *)
(* that ends the call: gather(..., return_exceptions=True) turns a raised  *)
(* exception into a value.                                                 *)
StageValue(v, s, attempt, signal, reply, secs, pmid) ==
    IF v = "fast"
    THEN LET step == call_claude_step(attempt, signal, reply)
         IN  IF step.do = "return" THEN StageParse(s, step.reply, pmid)
             ELSE ExceptionValue
    ELSE IF signal = "ok" THEN StageParse(s, reply, pmid)
         ELSE stage_except(s, secs, pmid)

(* Whether the call goes to sleep and tries again after this outcome; only *)
(* call_claude of the fast processor retries.                              *)
WillRetry(v, attempt, signal) ==
    v = "fast" /\ call_claude_step(attempt, signal, EmptyReply).do = "sleep"

(* Lines 212-215 / 309-316: an exception returned by gather is replaced.   *)
HandleException(s, value, pmid) ==
    IF value.kind # "exception" THEN value
    ELSE CASE s \in {1, 2} -> TextValue(EmptyText)
           [] s = 3 -> ListValue(<<>>)
           [] s = 4 -> DictValue(pmid, <<>>, <<>>)

(* A compilation that drops the summary when no molecule was extracted.    *)
CompileResult_all_or_nothing(pmid, name, secs, values) ==
    LET cleaned   == HandleException(1, values[1], pmid)
        summary   == HandleException(2, values[2], pmid)
        molecules == HandleException(3, values[3], pmid)
        topics_kw == HandleException(4, values[4], pmid)
    IN  [pmid |-> pmid, xml_file |-> name,
         title |-> secs.title, abstract |-> secs.abstract,
         comprehensive_summary |->
             IF molecules.items = <<>> THEN EmptyText ELSE summary.text,
         topics |-> topics_kw.topics, keywords |-> topics_kw.keywords,
         molecules |-> molecules.items,
         text_length |-> [title |-> secs.title.len,
                          abstract |-> secs.abstract.len,
                          body |-> secs.body.len,
                          cleaned |-> cleaned.text.len]]

(* The record process_article compiles from the sections and the results   *)
(* of the four stages (processing_time_seconds, a wall-clock diagnostic,   *)
(* is left out).                                                           *)
CompileResult(pmid, name, secs, values) ==
    LET cleaned   == HandleException(1, values[1], pmid)
        summary   == HandleException(2, values[2], pmid)
        molecules == HandleException(3, values[3], pmid)
        topics_kw == HandleException(4, values[4], pmid)
    IN  [pmid |-> pmid, xml_file |-> name,
         title |-> secs.title, abstract |-> secs.abstract,
         comprehensive_summary |-> summary.text,
         topics |-> topics_kw.topics, keywords |-> topics_kw.keywords,
         molecules |-> molecules.items,
         text_length |-> [title |-> secs.title.len,
                          abstract |-> secs.abstract.len,
                          body |-> secs.body.len,
                          cleaned |-> cleaned.text.len]]

(* The number of characters json.dump writes for a record, up to the fixed *)
(* overhead of the keys.                                                   *)
RecordSize(rec) ==
    rec.xml_file.len + rec.title.len + rec.abstract.len
    + rec.comprehensive_summary.len
    + 10 * (Len(rec.topics) + Len(rec.keywords) + Len(rec.molecules))

(* Output files.                                                           *)
Absent == [kind |-> "absent"]
PartialFile == [kind |-> "partial"]
RecordFile(rec) == [kind |-> "record", rec |-> rec]
(* output_file.exists()                                                    *)
Exists(file) == file.kind # "absent"

(* What the file holds after a writer closes it: its record, unless        *)
(* another writer has written a longer record to the same path after this  *)
(* writer opened (and truncated) it; then the tail of the longer record    *)
(* stays behind the shorter one.                                           *)
AfterDump(file, rec) ==
    IF file.kind = "record" /\ RecordSize(file.rec) > RecordSize(rec)
    THEN [kind |-> "garbled"]
    ELSE RecordFile(rec)

(* json.load(fp) on a record file succeeds when the file holds exactly one *)
(* record; on a truncated or garbled file it raises.                       *)
Readable(file) == file.kind = "record"
json_load(file) == file.rec

IndexFile(records) == [kind |-> "index", records |-> records]

(* An index construction that the first unreadable file aborts.            *)
all_analyses_aborting(dir) ==
    IF \E p \in DOMAIN dir : Exists(dir[p]) /\ ~Readable(dir[p])
    THEN {}
    ELSE { json_load(dir[p]) : p \in {q \in DOMAIN dir : Readable(dir[q])} }
(* The loop over SUMMARIES_DIR.glob("PMID*_analysis.json"): what json.load *)
(* returns for every file it can load; a file that raises is passed over.  *)
(* The order of the list is the order glob yields, which is left out.      *)
all_analyses(dir) ==
    { json_load(dir[p]) : p \in {q \in DOMAIN dir : Readable(dir[q])} }

(* "if all_analyses:" all_analyses_index.json is written anew; otherwise   *)
(* it stays as it is.                                                      *)
create_index(dir, index_file) ==
    IF all_analyses(dir) # {} THEN IndexFile(all_analyses(dir))
    ELSE index_file

(* Task results as collected by gather.                                    *)
NoneResult == [kind |-> "None"]
ProcessedResult(rec) == [kind |-> "processed", rec |-> rec]

IdleCall == [st |-> "idle", attempt |-> 0, slept |-> <<>>]

(* The final statistics of main over the results gather collected:        *)
(* processed counts "r and not isinstance(r, Exception)", skipped counts   *)
(* "r is None", errors counts "isinstance(r, Exception)".                  *)
IsException(r) == r.kind = "exception"
IsNone(r) == r.kind = "None"
(* A count that forgets the isinstance test.                              *)
CountsAsProcessed_not_none(r) == r.kind \in {"processed", "exception"}
CountsAsProcessed(r) == r.kind = "processed" /\ ~IsException(r)

(* ------------------------------- state --------------------------------- *)
VARIABLES
    variant,        \* which processor runs: "fast" or "parallel"
    batch,          \* the files XML_DIR holds (xml_files), taken in index order
    run,            \* number of invocations of main so far
    phase,          \* "idle" (no process) or "running"
    completedRuns,  \* invocations that ran to their end
    nextTask,       \* next task of the batch to take its first step
    pc,             \* position of each process_article task
    secs,           \* text_sections of each task
    semPermits,     \* value of processor.semaphore
    semQueue,       \* tasks waiting for processor.semaphore, FIFO
    rlPermits,      \* value of processor.rate_limiter
    rlQueue,        \* calls waiting for processor.rate_limiter, FIFO
    call,           \* state of each stage's LLM call
    values,         \* what each stage handed to gather
    stageLog,       \* what each stage printed: ok / error / throttled / unparsed
    rec,            \* the record a task compiled
    result,         \* what each task returned to process_batch
    disk,           \* SUMMARIES_DIR: Pmids -> output file
    index,          \* SUMMARIES_DIR / all_analyses_index.json
    diskAtStart,    \* SUMMARIES_DIR as the current invocation found it
    called,         \* PMIDs for which this invocation sent an LLM request
    faultsLeft,     \* failing LLM answers the environment may still give
    killsLeft,      \* process terminations that may still happen
    writeFailsLeft  \* failing writes that may still happen

pipeVars == <<variant, batch, run, phase, completedRuns, nextTask, pc, secs, semPermits,
              semQueue, rlPermits, rlQueue, call, values, stageLog, rec,
              result, disk, index, diskAtStart, called, faultsLeft,
              killsLeft, writeFailsLeft>>

(* The research-run backend.                                               *)
VARIABLES
    runs,           \* the research_runs table as committed: RunIds -> row
    passedCheck,    \* create_run requests between their check and their commit
    taskPc,         \* position of each run's background task
    taskStep,       \* the pipeline step the task is in (0: none)
    session,        \* the run as the task's own session sees it (uncommitted)
    lastStatus,     \* HTTP status of the latest response
    requestsLeft    \* requests the clients may still send

researchVars == <<runs, passedCheck, taskPc, taskStep, session, lastStatus, requestsLeft>>

(* The registry check of validate_molecules.py over one stored record.     *)
VARIABLES
    vFile,          \* the record file: its molecules and molecules_validation
    vCache,         \* MoleculeValidator.cache: lower-cased name -> result
    vBefore,        \* the molecules the file held when the latest pass began
    vResult,        \* what the latest validate_article_molecules returned
    vMode,          \* the latest pass: "none", "dry" or "fix"
    vPasses,        \* passes made so far
    vLookups        \* the calls of search_pubchem in the latest pass

registryVars == <<vFile, vCache, vBefore, vResult, vMode, vPasses, vLookups>>

(* The source-grounding scripts over the summaries directory.             *)
VARIABLES
    gDir,           \* the summary files: their molecules and keywords
    gXml,           \* the source document of each summary
    gBefore,        \* the summary files when the latest pass began
    gResults,       \* what the latest pass returned for each summary
    gScript,        \* the script of the latest pass: "verify" or "xml"
    gMode,          \* the latest pass: "none", "dry" or "fix"
    gPasses,        \* passes made so far
    gRuns,          \* the latest dry run and fix pass of the verification
    gStart          \* history: the summaries before the first pass
                    \* script: the directory at their start, their totals

groundingVars == <<gDir, gXml, gBefore, gResults, gScript, gMode, gPasses, gRuns,
                  gStart>>

(* The canonical molecule store of the backend.                           *)
VARIABLES
    small_molecules, \* the small_molecules table: rows, committed or not
    storePc,        \* each session's position in storing its results
    pending,        \* the extracted molecule a session is looking up
    inserts,        \* molecules each session has passed to find-or-create
    resolved,       \* <<session, extracted molecule, id of the row returned>>
    nextId          \* the next fresh row id

storeVars == <<small_molecules, storePc, pending, inserts, resolved, nextId>>

(* The links one research run stores with its extraction results.          *)
VARIABLES
    run_molecules,  \* research_run_molecules of the run: molecule id -> score
    paper_links,    \* molecule_paper_links: [molecule_id, paper_id, context_excerpt]
    papers,         \* paper summaries created so far
    sighting,       \* the molecule stored last, and whether its row existed
    seen_scores     \* history: <<molecule id, score>> of every sighting stored

linkVars == <<run_molecules, paper_links, papers, sighting, seen_scores>>

(* The answer of stages 3 and 4 and what is read out of it.                *)
VARIABLES
    response_text,   \* the text the LLM answered
    extracted_molecules, \* what stage 3 returned
    topics_data      \* what stage 4 returned
parseVars == <<response_text, extracted_molecules, topics_data>>

(* One article and what the loader reads from it.                         *)
VARIABLES
    document,        \* the document of the file: its root element
    text_sections    \* what clean_xml_text returned
loaderVars == <<document, text_sections>>

(* One call of call_claude against a given sequence of outcomes.           *)
VARIABLES
    cOutcomes,      \* what the requests of the call end in, in order
    cAttempt,       \* the loop variable attempt
    cPc,            \* "request", "sleeping" or "returned"
    cSlept,         \* the waits of the call so far
    cReturned       \* what the call returned
callVars == <<cOutcomes, cAttempt, cPc, cSlept, cReturned>>

(* The waves of one invocation of main (fast processor).                   *)
VARIABLES
    wTask,          \* each article: "none", "created", "running", or how it ended
    wWave,          \* i // BATCH_SIZE of the loop of main
    wPc,            \* main: "loop", "gather" (awaiting process_batch), "done"
    wPermits        \* value of the current processor.semaphore
waveVars == <<wTask, wWave, wPc, wPermits>>

(* One article and the article text of its four requests.                 *)
VARIABLES
    tVariant,       \* the processor: "fast" or "parallel"
    tSections,      \* text_sections of the article
    tSent           \* the article text in the request of each stage
promptVars == <<tVariant, tSections, tSent>>

(* The article gate and the rate limiter of one wave.                     *)
VARIABLES
    kPc,            \* each task: "new", "wait", "admitted", "stages", "done"
    kCall,          \* each call_claude: "idle", "queued", "inflight", "sleeping", "done"
    kSem,           \* value of processor.semaphore
    kSemQueue,      \* tasks waiting for it, in arrival order
    kRl,            \* value of processor.rate_limiter
    kRlQueue,       \* calls waiting for it, in arrival order
    kFaults         \* requests the environment may still let fail
gateVars == <<kPc, kCall, kSem, kSemQueue, kRl, kRlQueue, kFaults>>

restOfPipe == <<researchVars, registryVars, groundingVars, storeVars, linkVars, parseVars, loaderVars, callVars, waveVars, promptVars, gateVars>>
restOfResearch == <<registryVars, groundingVars, storeVars, linkVars, parseVars, loaderVars, callVars, waveVars, promptVars, gateVars>>
restOfRegistry == <<pipeVars, researchVars, groundingVars, storeVars, linkVars, parseVars, loaderVars, callVars, waveVars, promptVars, gateVars>>
restOfGrounding == <<pipeVars, researchVars, registryVars, storeVars, linkVars, parseVars, loaderVars, callVars, waveVars, promptVars, gateVars>>
restOfStore == <<pipeVars, researchVars, registryVars, groundingVars, linkVars, parseVars, loaderVars, callVars, waveVars, promptVars, gateVars>>
restOfLinks == <<pipeVars, researchVars, registryVars, groundingVars, parseVars, loaderVars, callVars, waveVars, promptVars, gateVars>>
restOfParse == <<pipeVars, researchVars, registryVars, groundingVars, storeVars, linkVars, loaderVars, callVars, waveVars, promptVars, gateVars>>
restOfLoader == <<pipeVars, researchVars, registryVars, groundingVars, storeVars, linkVars, parseVars, callVars, waveVars, promptVars, gateVars>>
restOfCall == <<pipeVars, researchVars, registryVars, groundingVars, storeVars, linkVars, parseVars, loaderVars, waveVars, promptVars, gateVars>>
restOfWaves == <<pipeVars, researchVars, registryVars, groundingVars, storeVars, linkVars, parseVars, loaderVars, callVars, promptVars, gateVars>>
restOfPrompt == <<pipeVars, researchVars, registryVars, groundingVars, storeVars, linkVars, parseVars, loaderVars, callVars, waveVars, gateVars>>
restOfGates == <<pipeVars, researchVars, registryVars, groundingVars, storeVars, linkVars, parseVars, loaderVars, callVars, waveVars, promptVars>>

vars == <<pipeVars, researchVars, registryVars, groundingVars, storeVars, linkVars, parseVars, loaderVars, callVars, waveVars, promptVars, gateVars>>

RunIds == 1..MaxRequests
NoRun == [status |-> "none", error_message |-> "None", completed_at |-> "None"]
(* ResearchRun(query=query, status=ResearchStatus.QUEUED)                  *)
NewRun == [status |-> "queued", error_message |-> "None", completed_at |-> "None"]
PIPELINE_STEPS == 4

PmidOfFile(f) == extract_pmid_from_filename(xml[f].name)

(* UltraFastProcessor.__init__ / ParallelArticleProcessor.__init__         *)
ArticleBound(v) ==
    IF v = "fast" THEN MAX_CONCURRENT_ARTICLES
    ELSE MAX_CONCURRENT_ARTICLES_PARALLEL
(* Only the fast processor has a rate limiter.                             *)
HasRateLimiter(v) == v = "fast"

(* A semaphore that never blocks.                                          *)
SemaphoreFree_always(value) == TRUE
(* asyncio.Semaphore: acquire succeeds at once iff the value is positive.  *)
SemaphoreFree(value) == value > 0

NoTasks == [f \in Files |-> "new"]
NoSecs == [f \in Files |-> clean_xml_text(Doc("", "", 0, 0, FALSE, 0))]
NoCalls == [f \in Files |-> [s \in Stages |-> IdleCall]]
NoValues == [f \in Files |-> [s \in Stages |-> Pending]]
NoLog == [f \in Files |-> [s \in Stages |-> "-"]]
NoRecs == [f \in Files |-> Pending]
NoResults == [f \in Files |-> Pending]

(* The scenarios explored: the whole directory with a well-behaved LLM,    *)
(* where a write may fail; the first files of the directory, where the     *)
(* process may be terminated; and a single article with LLM requests that  *)
(* may fail.                                                               *)
Scenarios ==
    { [batch |-> Files, faults |-> 0, kills |-> 0,
       writeFails |-> MaxWriteFailures],
      [batch |-> 1..KillBatch, faults |-> 0, kills |-> MaxKills,
       writeFails |-> 0],
      [batch |-> {2}, faults |-> MaxFaults, kills |-> 0, writeFails |-> 0] }

PipeInit ==
    /\ variant \in Variants
    /\ \E sc \in Scenarios :
          /\ batch = sc.batch
          /\ faultsLeft = sc.faults
          /\ killsLeft = sc.kills
          /\ writeFailsLeft = sc.writeFails
    /\ run = 0
    /\ phase = "idle"
    /\ completedRuns = 0
    /\ nextTask = 1
    /\ pc = NoTasks
    /\ secs = NoSecs
    /\ semPermits = ArticleBound(variant)
    /\ semQueue = <<>>
    /\ rlPermits = MAX_API_CALLS_PER_SECOND
    /\ rlQueue = <<>>
    /\ call = NoCalls
    /\ values = NoValues
    /\ stageLog = NoLog
    /\ rec = NoRecs
    /\ result = NoResults
    /\ disk = [p \in Pmids |-> Absent]
    /\ index = Absent
    /\ diskAtStart = [p \in Pmids |-> Absent]
    /\ called = {}


(* --------------------------- helper updates ---------------------------- *)
Running == phase = "running"
Unstarted == {f \in batch : f >= nextTask}
Started == Unstarted = {}
NextFile == CHOOSE f \in Unstarted : \A g \in Unstarted : f <= g
(* The parallel processor writes the file on the event loop, so no other   *)
(* task step runs while a write is in progress.                            *)
LoopFree == variant = "fast" \/ \A f \in Files : pc[f] # "writing"
AllStagesDone(f) == \A s \in Stages : call[f][s].st = "done"

(* Leaving "async with self.semaphore": the permit goes to the first       *)
(* waiter, or back to the semaphore.  p is the semaphore's value while f   *)
(* holds its permit.                                                       *)
Release(f, p) ==
    IF semQueue # <<>>
    THEN /\ pc' = [pc EXCEPT ![f] = "done", ![Head(semQueue)] = "admitted"]
         /\ semQueue' = Tail(semQueue)
         /\ semPermits' = p
    ELSE /\ pc' = [pc EXCEPT ![f] = "done"]
         /\ semQueue' = semQueue
         /\ semPermits' = p + 1

(* A return that leaves the article without releasing its permit.         *)
SkipArticle_keeping_permit(f, p) ==
    /\ result' = [result EXCEPT ![f] = NoneResult]
    /\ pc' = [pc EXCEPT ![f] = "done"]
    /\ semPermits' = p
    /\ UNCHANGED <<semQueue, secs, call, rlPermits, rlQueue, called>>

(* "return None" inside process_article.                                   *)
SkipArticle(f, p) ==
    /\ result' = [result EXCEPT ![f] = NoneResult]
    /\ Release(f, p)
    /\ UNCHANGED <<secs, call, rlPermits, rlQueue, called>>

(* A fan-out that starts the clean stage alone.                            *)
StartStages_one_by_one(f, p, sections) ==
    LET n == IF HasRateLimiter(variant)
             THEN IF SemaphoreFree(rlPermits) /\ rlQueue = <<>>
                  THEN 1 ELSE 0
             ELSE 1
    IN  /\ pc' = [pc EXCEPT ![f] = "stages"]
        /\ semPermits' = p
        /\ semQueue' = semQueue
        /\ result' = result
        /\ secs' = [secs EXCEPT ![f] = sections]
        /\ call' = [call EXCEPT ![f] =
                      [s \in Stages |->
                         [st |-> IF s <= n THEN "inflight"
                                 ELSE IF s = 1 THEN "queued" ELSE "idle",
                          attempt |-> 0, slept |-> <<>>]]]
        /\ rlPermits' = IF HasRateLimiter(variant) THEN rlPermits - n
                        ELSE rlPermits
        /\ rlQueue' = rlQueue \o [i \in 1..(1 - n) |-> <<f, n + i>>]
        /\ called' = IF n > 0 THEN called \cup {PmidOfFile(f)} ELSE called

(* asyncio.gather over the four stages: the stage coroutines start in      *)
(* order; each sends its request at once (parallel processor) or after     *)
(* acquiring the rate limiter (fast processor), queueing when it is empty. *)
StartStages(f, p, sections) ==
    LET n == IF HasRateLimiter(variant)
             THEN IF SemaphoreFree(rlPermits) /\ rlQueue = <<>>
                  THEN Min(rlPermits, 4) ELSE 0
             ELSE 4
    IN  /\ pc' = [pc EXCEPT ![f] = "stages"]
        /\ semPermits' = p
        /\ semQueue' = semQueue
        /\ result' = result
        /\ secs' = [secs EXCEPT ![f] = sections]
        /\ call' = [call EXCEPT ![f] =
                      [s \in Stages |->
                         [st |-> IF s <= n THEN "inflight" ELSE "queued",
                          attempt |-> 0, slept |-> <<>>]]]
        /\ rlPermits' = IF HasRateLimiter(variant) THEN rlPermits - n
                        ELSE rlPermits
        /\ rlQueue' = rlQueue \o [i \in 1..(4 - n) |-> <<f, n + i>>]
        /\ called' = IF n > 0 THEN called \cup {PmidOfFile(f)} ELSE called

(* Lines 196-209 / 278-303: the body check, then the fan-out.              *)
AfterParse(f, p) ==
    LET sections == clean_xml_text(xml[f])
    IN  IF InsufficientText(sections) THEN SkipArticle(f, p)
        ELSE StartStages(f, p, sections)

(* Lines 180-194 / 264-277: the task holds the semaphore; it derives the   *)
(* PMID, checks for an existing output file and goes on to parse (in the   *)
(* thread pool for the fast processor, in place for the parallel one).     *)
EnterArticle(f, p) ==
    LET pmid == PmidOfFile(f)
    IN  IF pmid = NoPmid THEN SkipArticle(f, p)
        ELSE IF Exists(disk[pmid]) THEN SkipArticle(f, p)
        ELSE IF variant = "fast"
             THEN /\ pc' = [pc EXCEPT ![f] = "parse"]
                  /\ semPermits' = p
                  /\ UNCHANGED <<semQueue, result, secs, call, rlPermits,
                                 rlQueue, called>>
             ELSE AfterParse(f, p)

(* A stage's call is over: its value goes to gather, and leaving           *)
(* "async with self.rate_limiter" passes the permit to the first waiting   *)
(* call, which sends its request.                                          *)
FinishCall(f, s, value, log) ==
    /\ values' = [values EXCEPT ![f][s] = value]
    /\ stageLog' = [stageLog EXCEPT ![f][s] = log]
    /\ IF HasRateLimiter(variant) /\ rlQueue # <<>>
       THEN LET h == Head(rlQueue)
            IN  /\ call' = [call EXCEPT ![f][s] = [IdleCall EXCEPT !.st = "done"],
                                        ![h[1]][h[2]] =
                                            [IdleCall EXCEPT !.st = "inflight"]]
                /\ rlQueue' = Tail(rlQueue)
                /\ rlPermits' = rlPermits
                /\ called' = called \cup {PmidOfFile(h[1])}
       ELSE /\ call' = [call EXCEPT ![f][s] = [IdleCall EXCEPT !.st = "done"]]
            /\ rlQueue' = rlQueue
            /\ rlPermits' = IF HasRateLimiter(variant) THEN rlPermits + 1
                            ELSE rlPermits
            /\ called' = called

(* The environment: at most MaxFaults requests fail.                       *)
MayFail(f, s) == faultsLeft > 0

(* ------------------------------ actions -------------------------------- *)
(* main: a new invocation builds the processor and the batch's tasks.      *)
StartRun ==
    /\ phase = "idle"
    /\ run < MaxRuns
    /\ run' = run + 1
    /\ phase' = "running"
    /\ nextTask' = 1
    /\ pc' = NoTasks
    /\ secs' = NoSecs
    /\ semPermits' = ArticleBound(variant)
    /\ semQueue' = <<>>
    /\ rlPermits' = MAX_API_CALLS_PER_SECOND
    /\ rlQueue' = <<>>
    /\ call' = NoCalls
    /\ values' = NoValues
    /\ stageLog' = NoLog
    /\ rec' = NoRecs
    /\ result' = NoResults
    /\ diskAtStart' = disk
    /\ called' = {}
    /\ UNCHANGED <<restOfPipe, index, variant, batch, completedRuns, disk, faultsLeft, killsLeft, writeFailsLeft>>

(* The first step of the next task of the batch: it acquires the article   *)
(* semaphore and enters, or queues on it.  Tasks take their first step in  *)
(* list order before the loop handles any completion.                      *)
StartTask ==
    /\ Running
    /\ ~Started
    /\ nextTask' = NextFile + 1
    /\ IF SemaphoreFree(semPermits)
       THEN EnterArticle(NextFile, semPermits - 1)
       ELSE /\ pc' = [pc EXCEPT ![NextFile] = "wait"]
            /\ semQueue' = Append(semQueue, NextFile)
            /\ UNCHANGED <<semPermits, result, secs, call, rlPermits,
                           rlQueue, called>>
    /\ UNCHANGED <<restOfPipe, index, variant, batch, completedRuns, run, phase, values, stageLog, rec, disk,
                   diskAtStart, faultsLeft, killsLeft, writeFailsLeft>>

(* A task woken with a permit enters.                                      *)
ResumeTask(f) ==
    /\ Running /\ Started /\ LoopFree
    /\ pc[f] = "admitted"
    /\ EnterArticle(f, semPermits)
    /\ UNCHANGED <<restOfPipe, index, variant, batch, completedRuns, run, phase, nextTask, values, stageLog, rec,
                   disk, diskAtStart, faultsLeft, killsLeft, writeFailsLeft>>

(* The thread pool hands back the parsed sections (fast processor).        *)
ParseDone(f) ==
    /\ Running /\ Started /\ LoopFree
    /\ pc[f] = "parse"
    /\ AfterParse(f, semPermits)
    /\ UNCHANGED <<restOfPipe, index, variant, batch, completedRuns, run, phase, nextTask, values, stageLog, rec,
                   disk, diskAtStart, faultsLeft, killsLeft, writeFailsLeft>>

(* The LLM answers a request with a completion: the well-formed answer,    *)
(* or (stages 3 and 4) prose that holds no JSON.                           *)
CallAnswered(f, s) ==
    /\ Running /\ Started /\ LoopFree
    /\ call[f][s].st = "inflight"
    /\ \E good \in BOOLEAN :
        /\ ~good => (s \in {3, 4} /\ MayFail(f, s))
        /\ faultsLeft' = IF good THEN faultsLeft ELSE faultsLeft - 1
        /\ FinishCall(f, s,
               StageValue(variant, s, call[f][s].attempt, "ok",
                          IF good THEN GoodReply(s) ELSE ProseReply,
                          secs[f], PmidOfFile(f)),
               IF good THEN "ok" ELSE "unparsed")
    /\ UNCHANGED <<restOfPipe, index, variant, batch, completedRuns, run, phase, nextTask, pc, secs, semPermits,
                   semQueue, rec, result, disk, diskAtStart, killsLeft,
                   writeFailsLeft>>

(* After a failed request the call sleeps and retries, or ends.            *)
EndOrRetry(f, s, signal) ==
    IF WillRetry(variant, call[f][s].attempt, signal)
    THEN /\ call' = [call EXCEPT ![f][s] =
               [st |-> "sleeping", attempt |-> @.attempt,
                slept |-> Append(@.slept,
                    call_claude_step(@.attempt, signal, EmptyReply).wait)]]
         /\ UNCHANGED <<values, stageLog, rlQueue, rlPermits, called>>
    ELSE FinishCall(f, s,
            StageValue(variant, s, call[f][s].attempt, signal, EmptyReply,
                       secs[f], PmidOfFile(f)),
            IF signal = "throttle" THEN "throttled" ELSE "error")

(* The LLM request fails with a throttling signal (429 / rate_limit).      *)
CallThrottled(f, s) ==
    /\ Running /\ Started /\ LoopFree
    /\ call[f][s].st = "inflight"
    /\ MayFail(f, s)
    /\ faultsLeft' = faultsLeft - 1
    /\ EndOrRetry(f, s, "throttle")
    /\ UNCHANGED <<restOfPipe, index, variant, batch, completedRuns, run, phase, nextTask, pc,
                   secs, semPermits, semQueue, rec, result, disk, diskAtStart,
                   killsLeft, writeFailsLeft>>

(* The LLM request fails with another error.                               *)
CallError(f, s) ==
    /\ Running /\ Started /\ LoopFree
    /\ call[f][s].st = "inflight"
    /\ MayFail(f, s)
    /\ faultsLeft' = faultsLeft - 1
    /\ EndOrRetry(f, s, "error")
    /\ UNCHANGED <<restOfPipe, index, variant, batch, completedRuns, run, phase, nextTask, pc,
                   secs, semPermits, semQueue, rec, result, disk, diskAtStart,
                   killsLeft, writeFailsLeft>>

(* asyncio.sleep(wait_time) is over: the loop continues with the next      *)
(* attempt.                                                                *)
CallRetries(f, s) ==
    /\ Running /\ Started /\ LoopFree
    /\ call[f][s].st = "sleeping"
    /\ call' = [call EXCEPT ![f][s] =
                  [st |-> "inflight", attempt |-> @.attempt + 1,
                   slept |-> @.slept]]
    /\ UNCHANGED <<restOfPipe, index, variant, batch, completedRuns, run, phase, nextTask, pc, secs, semPermits,
                   semQueue, rlPermits, rlQueue, values, stageLog, rec, result,
                   disk, diskAtStart, called, faultsLeft, killsLeft,
                   writeFailsLeft>>

(* gather has all four values: the task compiles the record and opens the  *)
(* output file for writing, which creates or truncates it.                 *)
SaveOpen(f) ==
    /\ Running /\ Started /\ LoopFree
    /\ pc[f] = "stages" /\ AllStagesDone(f)
    /\ rec' = [rec EXCEPT ![f] =
                 CompileResult(PmidOfFile(f), xml[f].name, secs[f], values[f])]
    /\ disk' = [disk EXCEPT ![PmidOfFile(f)] = PartialFile]
    /\ pc' = [pc EXCEPT ![f] = "writing"]
    /\ UNCHANGED <<restOfPipe, index, variant, batch, completedRuns, run, phase, nextTask, secs, semPermits,
                   semQueue, rlPermits, rlQueue, call, values, stageLog,
                   result, diskAtStart, called, faultsLeft, killsLeft,
                   writeFailsLeft>>

(* open() raises: the exception leaves process_article and gather of       *)
(* process_batch collects it.                                              *)
SaveFails(f) ==
    /\ Running /\ Started /\ LoopFree
    /\ pc[f] = "stages" /\ AllStagesDone(f)
    /\ writeFailsLeft > 0
    /\ writeFailsLeft' = writeFailsLeft - 1
    /\ result' = [result EXCEPT ![f] = ExceptionValue]
    /\ Release(f, semPermits)
    /\ UNCHANGED <<restOfPipe, index, variant, batch, completedRuns, run, phase, nextTask, secs, rlPermits,
                   rlQueue, call, values, stageLog, rec, disk, diskAtStart,
                   called, faultsLeft, killsLeft>>

(* json.dump has written the record and the file is closed; the task       *)
(* returns the record.                                                     *)
SaveDump(f) ==
    /\ Running /\ Started
    /\ pc[f] = "writing"
    /\ disk' = [disk EXCEPT ![PmidOfFile(f)] = AfterDump(@, rec[f])]
    /\ result' = [result EXCEPT ![f] = ProcessedResult(rec[f])]
    /\ Release(f, semPermits)
    /\ UNCHANGED <<restOfPipe, index, variant, batch, completedRuns, run, phase, nextTask, secs, rlPermits,
                   rlQueue, call, values, stageLog, rec, diskAtStart, called,
                   faultsLeft, killsLeft, writeFailsLeft>>

(* gather of process_batch returns: main prints the statistics, builds the *)
(* index from the record files, and the invocation ends.                   *)
FinishRun ==
    /\ Running /\ Started
    /\ \A f \in batch : pc[f] = "done"
    /\ phase' = "idle"
    /\ completedRuns' = completedRuns + 1
    /\ index' = create_index(disk, index)
    /\ UNCHANGED <<restOfPipe, variant, batch, run, nextTask, pc, secs, semPermits,
                   semQueue, rlPermits, rlQueue, call, values, stageLog, rec,
                   result, disk, diskAtStart, called, faultsLeft, killsLeft,
                   writeFailsLeft>>

(* The process is terminated: every task is gone, the directory stays as   *)
(* it is.                                                                  *)
Kill ==
    /\ Running
    /\ killsLeft > 0
    /\ killsLeft' = killsLeft - 1
    /\ phase' = "idle"
    /\ nextTask' = 1
    /\ pc' = NoTasks
    /\ secs' = NoSecs
    /\ semPermits' = ArticleBound(variant)
    /\ semQueue' = <<>>
    /\ rlPermits' = MAX_API_CALLS_PER_SECOND
    /\ rlQueue' = <<>>
    /\ call' = NoCalls
    /\ values' = NoValues
    /\ stageLog' = NoLog
    /\ rec' = NoRecs
    /\ result' = NoResults
    /\ called' = {}
    /\ UNCHANGED <<restOfPipe, index, variant, batch, completedRuns, run, disk, diskAtStart, faultsLeft,
                   writeFailsLeft>>

PipeNext ==
    \/ StartRun
    \/ StartTask
    \/ \E f \in Files : ResumeTask(f)
    \/ \E f \in Files : ParseDone(f)
    \/ \E f \in Files, s \in Stages : CallAnswered(f, s)
    \/ \E f \in Files, s \in Stages : CallThrottled(f, s)
    \/ \E f \in Files, s \in Stages : CallError(f, s)
    \/ \E f \in Files, s \in Stages : CallRetries(f, s)
    \/ \E f \in Files : SaveOpen(f)
    \/ \E f \in Files : SaveFails(f)
    \/ \E f \in Files : SaveDump(f)
    \/ FinishRun
    \/ Kill

(* --------------------- the research-run backend ----------------------- *)
ResearchInit ==
    /\ runs = [id \in RunIds |-> NoRun]
    /\ passedCheck = 0
    /\ taskPc = [id \in RunIds |-> "none"]
    /\ taskStep = [id \in RunIds |-> 0]
    /\ session = [id \in RunIds |-> NoRun]
    /\ lastStatus = 0
    /\ requestsLeft = MaxRequests

(* check_concurrent_run: some committed run is queued or processing.       *)
check_concurrent_run ==
    \E id \in RunIds : runs[id].status \in {"queued", "processing"}

(* The id the next inserted run gets.                                      *)
NextRunId == CHOOSE id \in RunIds :
    /\ runs[id] = NoRun
    /\ \A j \in RunIds : runs[j] = NoRun => id <= j

(* create_run, up to the answer of check_concurrent_run: 409 when a run is *)
(* in progress.                                                            *)
CreateRunCheck ==
    /\ requestsLeft > 0
    /\ requestsLeft' = requestsLeft - 1
    /\ IF check_concurrent_run
       THEN lastStatus' = 409 /\ passedCheck' = passedCheck
       ELSE lastStatus' = lastStatus /\ passedCheck' = passedCheck + 1
    /\ UNCHANGED <<runs, taskPc, taskStep, session, pipeVars, restOfResearch>>

(* create_run, from create_research_run on: the run is inserted and        *)
(* committed, the background task is scheduled, the answer is 201.         *)
CreateRunCommit ==
    /\ passedCheck > 0
    /\ passedCheck' = passedCheck - 1
    /\ runs' = [runs EXCEPT ![NextRunId] = NewRun]
    /\ taskPc' = [taskPc EXCEPT ![NextRunId] = "scheduled"]
    /\ lastStatus' = 201
    /\ UNCHANGED <<taskStep, session, requestsLeft, pipeVars, restOfResearch>>

(* retry_run: 404 for an unknown run, 400 unless the run is failed;        *)
(* otherwise the run is reset to queued, committed, and its task is        *)
(* scheduled again.                                                        *)
RetryRun(id) ==
    /\ requestsLeft > 0
    /\ requestsLeft' = requestsLeft - 1
    /\ IF runs[id] = NoRun
       THEN lastStatus' = 404 /\ UNCHANGED <<runs, taskPc>>
       ELSE IF runs[id].status # "failed"
       THEN lastStatus' = 400 /\ UNCHANGED <<runs, taskPc>>
       ELSE /\ lastStatus' = 200
            /\ runs' = [runs EXCEPT ![id] = NewRun]
            /\ taskPc' = [taskPc EXCEPT ![id] = "scheduled"]
    /\ UNCHANGED <<passedCheck, taskStep, session, pipeVars, restOfResearch>>

(* _run_pipeline_task opens its session; execute_research_pipeline loads   *)
(* the run, sets it to processing and flushes (not committed).             *)
TaskStart(id) ==
    /\ taskPc[id] = "scheduled"
    /\ session' = [session EXCEPT ![id] = [runs[id] EXCEPT !.status = "processing"]]
    /\ taskPc' = [taskPc EXCEPT ![id] = "running"]
    /\ taskStep' = [taskStep EXCEPT ![id] = 1]
    /\ UNCHANGED <<runs, passedCheck, lastStatus, requestsLeft, pipeVars, restOfResearch>>

(* One step of the pipeline returns: search_pubmed, extract_molecules,     *)
(* _store_extraction_results, _generate_embeddings.  After the last step,  *)
(* or when the search finds no paper, the run is set to complete in the    *)
(* session.                                                                *)
TaskStepReturns(id, noPapers) ==
    /\ taskPc[id] = "running"
    /\ noPapers => taskStep[id] = 1
    /\ IF noPapers \/ taskStep[id] = PIPELINE_STEPS
       THEN /\ session' = [session EXCEPT ![id] =
                    [@ EXCEPT !.status = "complete", !.completed_at = "now"]]
            /\ taskPc' = [taskPc EXCEPT ![id] = "returned"]
            /\ taskStep' = [taskStep EXCEPT ![id] = 0]
       ELSE /\ session' = session
            /\ taskPc' = taskPc
            /\ taskStep' = [taskStep EXCEPT ![id] = @ + 1]
    /\ UNCHANGED <<runs, passedCheck, lastStatus, requestsLeft, pipeVars, restOfResearch>>

(* A step raises (_generate_embeddings swallows its exceptions): the       *)
(* except clause of execute_research_pipeline marks the run failed in the  *)
(* session, flushes, and re-raises.                                        *)
TaskStepRaises(id) ==
    /\ taskPc[id] = "running"
    /\ taskStep[id] < PIPELINE_STEPS
    /\ taskStep' = [taskStep EXCEPT ![id] = 0]
    /\ session' = [session EXCEPT ![id] =
           [status |-> "failed", error_message |-> "str(e)",
            completed_at |-> "now"]]
    /\ taskPc' = [taskPc EXCEPT ![id] = "raised"]
    /\ UNCHANGED <<runs, passedCheck, lastStatus, requestsLeft, pipeVars, restOfResearch>>

(* db.commit(): what the session holds becomes the committed row.          *)
Commit(row, sessionRow) == sessionRow
(* db.rollback(): what the session flushed is discarded.                   *)
Rollback(row, sessionRow) == row

(* _run_pipeline_task after execute_research_pipeline returned: commit.    *)
TaskCommit(id) ==
    /\ taskPc[id] = "returned"
    /\ runs' = [runs EXCEPT ![id] = Commit(@, session[id])]
    /\ session' = [session EXCEPT ![id] = NoRun]
    /\ taskPc' = [taskPc EXCEPT ![id] = "completed"]
    /\ UNCHANGED <<taskStep, passedCheck, lastStatus, requestsLeft, pipeVars, restOfResearch>>

(* _run_pipeline_task after execute_research_pipeline raised: the except   *)
(* clause rolls the session back and logs the failure.                     *)
TaskRollback(id) ==
    /\ taskPc[id] = "raised"
    /\ runs' = [runs EXCEPT ![id] = Rollback(@, session[id])]
    /\ session' = [session EXCEPT ![id] = NoRun]
    /\ taskPc' = [taskPc EXCEPT ![id] = "failed"]
    /\ UNCHANGED <<taskStep, passedCheck, lastStatus, requestsLeft, pipeVars, restOfResearch>>

ResearchNext ==
    \/ CreateRunCheck
    \/ CreateRunCommit
    \/ \E id \in RunIds : RetryRun(id)
    \/ \E id \in RunIds : TaskStart(id)
    \/ \E id \in RunIds, noPapers \in BOOLEAN : TaskStepReturns(id, noPapers)
    \/ \E id \in RunIds : TaskStepRaises(id)
    \/ \E id \in RunIds : TaskCommit(id)
    \/ \E id \in RunIds : TaskRollback(id)

(* The rows a research_runs table can hold between requests: no row, a    *)
(* queued run, a complete one, a failed one (ResearchStatus of            *)
(* models/research_run.py); "processing" is only ever flushed.             *)
CompleteRun == [status |-> "complete", error_message |-> "None", completed_at |-> "now"]
FailedRun == [status |-> "failed", error_message |-> "str(e)", completed_at |-> "now"]
StoredRows == {NoRun, NewRun, CompleteRun, FailedRun}

(* The background task that goes with a stored row.                        *)
TaskOf(row) ==
    CASE row = NewRun -> "scheduled"
      [] row = CompleteRun -> "completed"
      [] row = FailedRun -> "failed"
      [] OTHER -> "none"

(* A table found at start-up: any rows with at most one run queued, and    *)
(* room for the runs the coming requests create.                           *)
StoredInit ==
    /\ runs \in [RunIds -> StoredRows]
    /\ Cardinality({id \in RunIds : runs[id] = NewRun}) <= 1
    /\ requestsLeft = Cardinality({id \in RunIds : runs[id] = NoRun})
    /\ requestsLeft > 0
    /\ passedCheck = 0
    /\ taskPc = [id \in RunIds |-> TaskOf(runs[id])]
    /\ taskStep = [id \in RunIds |-> 0]
    /\ session = [id \in RunIds |-> NoRun]
    /\ lastStatus = 0

(* ------------- the registry check (validate_molecules.py) -------------- *)
(* Molecule names as extracted, and what str.lower makes of them.          *)
Names == {"nitrate", "Nitrate", "3-NOP", "rumenol"}
lower(name) ==
    CASE name = "Nitrate" -> "nitrate"
      [] name = "3-NOP" -> "3-nop"
      [] OTHER -> name
(* The compounds the registry knows, and the preferred IUPAC name it       *)
(* reports for them ("None" when the entry has none).                      *)
InRegistry(key) == key \in {"nitrate", "3-nop", "3-nitrooxypropan-1-ol"}
iupac_name(key) ==
    IF key \in {"3-nop", "3-nitrooxypropan-1-ol"} THEN "3-nitrooxypropan-1-ol"
    ELSE "None"
(* The keys the validator's cache can hold.                                *)
CacheKeys == {lower(n) : n \in Names} \cup {"3-nitrooxypropan-1-ol"}
(* What a lookup request can end in: the registry's answer (200 or 404),   *)
(* another status, or a request exception.                                 *)
Answers(name) ==
    {IF InRegistry(lower(name)) THEN "200" ELSE "404", "500", "timeout"}

RECURSIVE SeqsUpTo(_, _)
SeqsUpTo(S, n) ==
    IF n = 0 THEN {<<>>}
    ELSE LET shorter == SeqsUpTo(S, n - 1)
         IN  shorter \cup {Append(q, x) : q \in shorter, x \in S}
Range(q) == {q[i] : i \in 1..Len(q)}

NotCached == [found |-> "unset"]
(* A search_pubchem that never looks into the cache.                       *)
search_pubchem_uncached(name, answer, cache) ==
    CASE answer = "200" ->
           LET r == [found |-> "True", iupac_name |-> iupac_name(lower(name))]
           IN  [result |-> r, cache |-> [cache EXCEPT ![lower(name)] = r],
                requested |-> TRUE]
      [] answer = "404" ->
           LET r == [found |-> "False"]
           IN  [result |-> r, cache |-> [cache EXCEPT ![lower(name)] = r],
                requested |-> TRUE]
      [] OTHER -> [result |-> [found |-> "None"], cache |-> cache,
                   requested |-> TRUE]
(* search_pubchem: the cached result, or the outcome of the request; 200   *)
(* and 404 are cached, anything else gives None and is not.  requested     *)
(* tells whether session.get was called.                                   *)
search_pubchem(name, answer, cache) ==
    IF cache[lower(name)] # NotCached
    THEN [result |-> cache[lower(name)], cache |-> cache, requested |-> FALSE]
    ELSE CASE answer = "200" ->
                LET r == [found |-> "True", iupac_name |-> iupac_name(lower(name))]
                IN  [result |-> r, cache |-> [cache EXCEPT ![lower(name)] = r],
                     requested |-> TRUE]
           [] answer = "404" ->
                LET r == [found |-> "False"]
                IN  [result |-> r, cache |-> [cache EXCEPT ![lower(name)] = r],
                     requested |-> TRUE]
           [] OTHER -> [result |-> [found |-> "None"], cache |-> cache,
                        requested |-> TRUE]

(* validate_molecule: valid is True, False, or None after a failed lookup. *)
validate_molecule(name, answer, cache) ==
    LET found == search_pubchem(name, answer, cache)
        r == found.result
    IN  [cache |-> found.cache,
         lookup |-> [name |-> name, result |-> r,
                     requested |-> found.requested],
         validation |->
           IF r.found = "None"
           THEN [original_name |-> name, valid |-> "None",
                 standardized_name |-> name]
           ELSE IF r.found = "True"
           THEN [original_name |-> name, valid |-> "True",
                 standardized_name |->
                     IF r.iupac_name # "None" THEN r.iupac_name ELSE name]
           ELSE [original_name |-> name, valid |-> "False",
                 standardized_name |-> name]]

(* validate_molecules_list: the molecules in order, each into one of the   *)
(* three lists.                                                            *)
RECURSIVE validate_molecules_list(_, _, _)
validate_molecules_list(molecules, answers, cache) ==
    IF molecules = <<>>
    THEN [valid |-> <<>>, invalid |-> <<>>, unknown |-> <<>>,
          details |-> <<>>, cache |-> cache, lookups |-> <<>>]
    ELSE LET one == validate_molecule(Head(molecules), Head(answers), cache)
             v == one.validation
             rest == validate_molecules_list(Tail(molecules), Tail(answers),
                                             one.cache)
         IN  [valid |-> (IF v.valid = "True" THEN <<v.standardized_name>>
                         ELSE <<>>) \o rest.valid,
              invalid |-> (IF v.valid = "False" THEN <<v.original_name>>
                           ELSE <<>>) \o rest.invalid,
              unknown |-> (IF v.valid = "None" THEN <<v.original_name>>
                           ELSE <<>>) \o rest.unknown,
              details |-> <<v>> \o rest.details,
              cache |-> rest.cache,
              lookups |-> <<one.lookup>> \o rest.lookups]

NoValidation == [total_original |-> 0, valid |-> 0, invalid |-> 0,
                 unknown |-> 0, invalid_list |-> <<>>]
RegistryIdle ==
    /\ vFile = [molecules |-> <<"nitrate">>, molecules_validation |-> NoValidation]
    /\ vCache = [k \in CacheKeys |-> NotCached]
    /\ vBefore = <<>>
    /\ vResult = NoneResult
    /\ vMode = "none"
    /\ vPasses = 0
    /\ vLookups = <<>>
RegistryInit ==
    /\ vFile \in {[molecules |-> m, molecules_validation |-> NoValidation] :
                     m \in SeqsUpTo(Names, MaxMolecules)}
    /\ vCache = [k \in CacheKeys |-> NotCached]
    /\ vBefore = <<>>
    /\ vResult = NoneResult
    /\ vMode = "none"
    /\ vPasses = 0
    /\ vLookups = <<>>

(* validate_article_molecules over the record, with the validator main     *)
(* built for this invocation: None for a record without molecules;         *)
(* otherwise the three lists, and with --fix the file is rewritten.        *)
validate_article_molecules(fix) ==
    /\ vPasses < MaxPasses
    /\ vPasses' = vPasses + 1
    /\ vMode' = IF fix THEN "fix" ELSE "dry"
    /\ vBefore' = vFile.molecules
    /\ IF vFile.molecules = <<>>
       THEN /\ vResult' = NoneResult
            /\ vLookups' = <<>>
            /\ UNCHANGED <<vFile, vCache>>
       ELSE \E answers \in [1..Len(vFile.molecules) -> {"200", "404", "500", "timeout"}] :
              /\ \A i \in 1..Len(answers) : answers[i] \in Answers(vFile.molecules[i])
              /\ LET r == validate_molecules_list(vFile.molecules, answers,
                              [k \in DOMAIN vCache |-> NotCached])
                 IN  /\ vResult' = [valid |-> r.valid, invalid |-> r.invalid,
                                    unknown |-> r.unknown]
                     /\ vCache' = r.cache
                     /\ vLookups' = r.lookups
                     /\ vFile' = IF fix
                          THEN [molecules |-> r.valid,
                                molecules_validation |->
                                  [total_original |-> Len(vFile.molecules),
                                   valid |-> Len(r.valid),
                                   invalid |-> Len(r.invalid),
                                   unknown |-> Len(r.unknown),
                                   invalid_list |-> r.invalid]]
                          ELSE vFile
    /\ UNCHANGED restOfRegistry

RegistryNext == \E fix \in BOOLEAN : validate_article_molecules(fix)

(* ---- source grounding (verify_and_fix_summaries.py,                     *)
(*      validate_molecules_in_xml.py) ------------------------------------ *)
(* Texts are sequences of characters; a character outside ASCII is named   *)
(* by its code point.                                                      *)
UpperCase == <<"A", "B", "C", "D", "E", "F", "G", "H", "I", "J", "K", "L", "M",
               "N", "O", "P", "Q", "R", "S", "T", "U", "V", "W", "X", "Y", "Z">>
LowerCase == <<"a", "b", "c", "d", "e", "f", "g", "h", "i", "j", "k", "l", "m",
               "n", "o", "p", "q", "r", "s", "t", "u", "v", "w", "x", "y", "z">>
ToLower == [c \in {UpperCase[k] : k \in 1..Len(UpperCase)} |->
               LowerCase[CHOOSE k \in 1..Len(UpperCase) : UpperCase[k] = c]]
(* str.lower *)
str_lower(s) ==
    [i \in 1..Len(s) |-> IF s[i] \in DOMAIN ToLower THEN ToLower[s[i]] ELSE s[i]]
(* a in b, for Python strings *)
IsSubstring(a, b) ==
    \E i \in 0..(Len(b) - Len(a)) : SubSeq(b, i + 1, i + Len(a)) = a
(* str.replace: every occurrence of old, left to right; what is left of   *)
(* the text once old no longer occurs in it stays as it is                 *)
RECURSIVE str_replace(_, _, _)
str_replace(s, old, new) ==
    IF ~IsSubstring(old, s) THEN s
    ELSE IF SubSeq(s, 1, Len(old)) = old
    THEN new \o str_replace(SubSeq(s, Len(old) + 1, Len(s)), old, new)
    ELSE <<Head(s)>> \o str_replace(Tail(s), old, new)
(* str.replace of one character by another, and by nothing *)
replace_char(s, old, new) ==
    [i \in 1..Len(s) |-> IF s[i] = old THEN new ELSE s[i]]
remove_char(s, old) == SelectSeq(s, LAMBDA c : c # old)
Whitespace == {" ", "\n"}
(* re.sub(r'\s+', ' ', text): each run of whitespace becomes one space:   *)
(* its first character a space, the others gone                            *)
CollapseWhitespace(s) ==
    LET marked == [i \in 1..Len(s) |->
                     IF s[i] \notin Whitespace THEN s[i]
                     ELSE IF i > 1 /\ s[i - 1] \in Whitespace THEN "(gone)"
                     ELSE " "]
    IN  SelectSeq(marked, LAMBDA c : c # "(gone)")
(* ' '.join(text.split()): the same with no space at either end *)
JoinSplit(s) ==
    LET c == CollapseWhitespace(s)
        front == IF c # <<>> /\ Head(c) = " " THEN Tail(c) ELSE c
    IN  IF front # <<>> /\ front[Len(front)] = " "
        THEN SubSeq(front, 1, Len(front) - 1) ELSE front

(* The entries of normalize_text's replacement table that the texts below  *)
(* can meet: Greek alpha and beta, and the en dash.                        *)
replacements ==
    << [old |-> <<"U+03B1">>, new |-> <<"a", "l", "p", "h", "a">>],
       [old |-> <<"U+03B2">>, new |-> <<"b", "e", "t", "a">>],
       [old |-> <<"U+2013">>, new |-> <<"-">>] >>
RECURSIVE ApplyReplacements(_, _)
ApplyReplacements(s, table) ==
    IF table = <<>> THEN s
    ELSE ApplyReplacements(str_replace(s, Head(table).old, Head(table).new),
                           Tail(table))
(* normalize_text of verify_and_fix_summaries.py *)
normalize_text(text) ==
    CollapseWhitespace(ApplyReplacements(str_lower(text), replacements))

(* re.split(r'[\s\-]+', term): the words between runs of whitespace and    *)
(* hyphens (the empty strings a leading or trailing separator gives are    *)
(* left out: they are never significant).                                  *)
IsSeparator(c) == c \in Whitespace \cup {"-"}
RECURSIVE FirstWord(_)
FirstWord(s) ==
    IF s = <<>> \/ IsSeparator(Head(s)) THEN <<>>
    ELSE <<Head(s)>> \o FirstWord(Tail(s))
RECURSIVE SplitWords(_)
SplitWords(s) ==
    IF s = <<>> THEN <<>>
    ELSE IF IsSeparator(Head(s)) THEN SplitWords(Tail(s))
    ELSE LET w == FirstWord(s)
         IN  <<w>> \o SplitWords(SubSeq(s, Len(w) + 1, Len(s)))
significant_words(term_norm) ==
    {w \in Range(SplitWords(term_norm)) : Len(w) > SIGNIFICANT_LENGTH}

(* check_term_exists *)
check_term_exists(term, xml_text) ==
    IF term = <<>> \/ xml_text = <<>> THEN FALSE
    ELSE LET term_norm == normalize_text(term)
             xml_norm == normalize_text(xml_text)
             term_no_hyphen == replace_char(term_norm, "-", " ")
             term_compact == remove_char(term_norm, "-")
             xml_compact == remove_char(xml_norm, "-")
         IN  IF IsSubstring(term_norm, xml_norm) THEN TRUE
             ELSE IF IsSubstring(term_no_hyphen, xml_norm) THEN TRUE
             ELSE IF IsSubstring(term_compact, xml_compact) THEN TRUE
             ELSE IF (\E i \in 1..Len(term_norm) : term_norm[i] \in {" ", "-"})
                     /\ significant_words(term_norm) # {}
             THEN \A word \in significant_words(term_norm) :
                      IsSubstring(word, xml_norm)
             ELSE FALSE

(* html.unescape, for the character reference the texts below can hold *)
html_unescape(text) ==
    str_replace(text, <<"&", "#", "9", "4", "6", ";">>, <<"U+03B2">>)
(* normalize_text of validate_molecules_in_xml.py *)
normalize_text_xml(text) == JoinSplit(str_lower(html_unescape(text)))

(* find_molecule_in_text; its word-boundary search looks for the same      *)
(* characters as the substring test before it, so it matches only where    *)
(* that test already did.                                                  *)
find_molecule_in_text(molecule, text) ==
    LET normalized_molecule == normalize_text_xml(molecule)
        normalized_text == normalize_text_xml(text)
        no_space_molecule ==
            remove_char(remove_char(normalized_molecule, " "), "-")
        no_space_text == remove_char(remove_char(normalized_text, " "), "-")
    IN  IF IsSubstring(normalized_molecule, normalized_text) THEN TRUE
        ELSE Len(no_space_molecule) > 3
             /\ IsSubstring(no_space_molecule, no_space_text)

(* The entities and the source texts.                                      *)
(* "alpha-ketoglutarate" *)
alpha_ketoglutarate ==
    <<"a", "l", "p", "h", "a", "-", "k", "e", "t", "o", "g", "l", "u", "t",
      "a", "r", "a", "t", "e">>

(* "3 NOP" *)
three_NOP ==
    <<"3", " ", "N", "O", "P">>

(* "xyz-nonexistent-compound" *)
nonexistent ==
    <<"x", "y", "z", "-", "n", "o", "n", "e", "x", "i", "s", "t", "e", "n",
      "t", "-", "c", "o", "m", "p", "o", "u", "n", "d">>

(* "(beta sign)-carotene", with the Greek letter U+03B2 *)
beta_carotene ==
    <<"U+03B2", "-", "c", "a", "r", "o", "t", "e", "n", "e">>

(* "methane emission" *)
methane_emission ==
    <<"m", "e", "t", "h", "a", "n", "e", " ", "e", "m", "i", "s", "s", "i",
      "o", "n">>

(* "rumen pH" *)
rumen_pH ==
    <<"r", "u", "m", "e", "n", " ", "p", "H">>

(* "Alpha ketoglutarate and 3-NOP" *)
FeedTrial ==
    <<"A", "l", "p", "h", "a", " ", "k", "e", "t", "o", "g", "l", "u", "t",
      "a", "r", "a", "t", "e", " ", "a", "n", "d", " ", "3", "-", "N", "O",
      "P">>

(* "emission of  methane in rumen:(newline)&#946;-carotene" *)
RumenStudy ==
    <<"e", "m", "i", "s", "s", "i", "o", "n", " ", "o", "f", " ", " ", "m",
      "e", "t", "h", "a", "n", "e", " ", "i", "n", " ", "r", "u", "m", "e",
      "n", ":", "\n", "&", "#", "9", "4", "6", ";", "-", "c", "a", "r",
      "o", "t", "e", "n", "e">>

(* The stored records and their source documents.  A document is absent,   *)
(* or holds its text; one that is not well-formed cannot be parsed.        *)
MoleculeTerms == {alpha_ketoglutarate, three_NOP, nonexistent}
KeywordTerms == {methane_emission, rumen_pH}
NoXml == [exists |-> FALSE, wellformed |-> FALSE, content |-> <<>>]
XmlFile(content) == [exists |-> TRUE, wellformed |-> TRUE, content |-> content]
Malformed(content) == [exists |-> TRUE, wellformed |-> FALSE, content |-> content]
(* A document of no bytes, or one whose bytes cannot be decoded: nothing   *)
(* is read from it.                                                        *)
EmptyFile == Malformed(<<>>)
NotValidated == [method |-> "none", removed_molecules |-> <<>>]
Summary(molecules, keywords) ==
    [molecules |-> molecules, keywords |-> keywords,
     molecules_validation |-> NotValidated]
summary_files == <<1, 2>>

(* read_xml_text: the document's text, character references resolved by    *)
(* the parser, lower-cased; empty when the document cannot be parsed.      *)
read_xml_text(doc) ==
    IF ~doc.wellformed THEN <<>> ELSE str_lower(html_unescape(doc.content))
(* extract_text_from_xml: the file as it is *)
extract_text_from_xml(doc) == doc.content

(* verify_molecules, verify_keywords: the terms in order, each into one of *)
(* the two lists.                                                          *)
Terms(marked) == [i \in 1..Len(marked) |-> marked[i].term]
verify_molecules_unlisted(molecules, xml_text) ==
    LET marked == [i \in 1..Len(molecules) |->
                     [term |-> molecules[i],
                      found |-> check_term_exists(molecules[i], xml_text)]]
    IN  [verified |-> Terms(SelectSeq(marked, LAMBDA t : t.found)),
         removed |-> <<>>]
verify_molecules(molecules, xml_text) ==
    LET marked == [i \in 1..Len(molecules) |->
                     [term |-> molecules[i],
                      found |-> check_term_exists(molecules[i], xml_text)]]
    IN  [verified |-> Terms(SelectSeq(marked, LAMBDA t : t.found)),
         removed |-> Terms(SelectSeq(marked, LAMBDA t : ~t.found))]
verify_keywords(keywords, xml_text) ==
    LET marked == [i \in 1..Len(keywords) |->
                     [term |-> keywords[i],
                      found |-> check_term_exists(keywords[i], xml_text)]]
    IN  [verified |-> Terms(SelectSeq(marked, LAMBDA t : t.found)),
         removed |-> Terms(SelectSeq(marked, LAMBDA t : ~t.found))]

(* A pass that writes the record of every file it checks in fix mode.      *)
verify_summary_rewriting(summary, doc, fix) ==
    LET xml_text == read_xml_text(doc)
    IN  IF xml_text = <<>>
        THEN [result |-> [error |-> "Could not read XML", fixed |-> FALSE],
              summary |-> summary]
        ELSE LET m == verify_molecules(summary.molecules, xml_text)
                 k == verify_keywords(summary.keywords, xml_text)
             IN  [result |->
                    [molecules_before |-> Len(summary.molecules),
                     molecules_after |-> Len(m.verified),
                     molecules_removed |-> m.removed,
                     keywords_before |-> Len(summary.keywords),
                     keywords_after |-> Len(k.verified),
                     keywords_removed |-> k.removed,
                     fixed |-> fix],
                  summary |->
                    IF fix
                    THEN [summary EXCEPT !.molecules = m.verified,
                                         !.keywords = k.verified]
                    ELSE summary]

(* verify_summary: what it returns and what the summary file holds after.  *)
verify_summary(summary, doc, fix) ==
    LET xml_text == read_xml_text(doc)
    IN  IF xml_text = <<>>
        THEN [result |-> [error |-> "Could not read XML", fixed |-> FALSE],
              summary |-> summary]
        ELSE LET m == verify_molecules(summary.molecules, xml_text)
                 k == verify_keywords(summary.keywords, xml_text)
                 rewrite == fix /\ (m.removed # <<>> \/ k.removed # <<>>)
             IN  [result |->
                    [molecules_before |-> Len(summary.molecules),
                     molecules_after |-> Len(m.verified),
                     molecules_removed |-> m.removed,
                     keywords_before |-> Len(summary.keywords),
                     keywords_after |-> Len(k.verified),
                     keywords_removed |-> k.removed,
                     fixed |-> rewrite],
                  summary |->
                    IF rewrite
                    THEN [summary EXCEPT !.molecules = m.verified,
                                         !.keywords = k.verified]
                    ELSE summary]

(* main of verify_and_fix_summaries.py, per summary file: no result when   *)
(* the file has no XML.                                                    *)
VerifyOne(summary, doc, fix) ==
    IF ~doc.exists THEN [result |-> NoneResult, summary |-> summary]
    ELSE verify_summary(summary, doc, fix)
NoStats == [checked |-> 0, fixed |-> 0, errors |-> 0,
            molecules_removed |-> 0, keywords_removed |-> 0]
AddStats(stats, outcome) ==
    IF outcome = NoneResult
    THEN [stats EXCEPT !.errors = @ + 1]
    ELSE IF "error" \in DOMAIN outcome
    THEN [stats EXCEPT !.checked = @ + 1, !.errors = @ + 1]
    ELSE IF Len(outcome.molecules_removed) > 0 \/ Len(outcome.keywords_removed) > 0
    THEN [stats EXCEPT
            !.checked = @ + 1,
            !.molecules_removed = @ + Len(outcome.molecules_removed),
            !.keywords_removed = @ + Len(outcome.keywords_removed),
            !.fixed = IF outcome.fixed THEN @ + 1 ELSE @]
    ELSE [stats EXCEPT !.checked = @ + 1]
RECURSIVE total_stats(_)
total_stats(results) ==
    IF results = <<>> THEN NoStats
    ELSE AddStats(total_stats(SubSeq(results, 1, Len(results) - 1)),
                  results[Len(results)])

(* The loop of validate_molecules_in_xml: the molecules in order, each     *)
(* into one of the two lists.                                              *)
RECURSIVE find_molecules(_, _)
find_molecules(molecules, xml_text) ==
    IF molecules = <<>> THEN [valid |-> <<>>, invalid |-> <<>>]
    ELSE LET found == find_molecule_in_text(Head(molecules), xml_text)
             rest == find_molecules(Tail(molecules), xml_text)
         IN  IF found
             THEN [rest EXCEPT !.valid = <<Head(molecules)>> \o @]
             ELSE [rest EXCEPT !.invalid = <<Head(molecules)>> \o @]
(* validate_molecules_in_xml: what it returns and what the summary file    *)
(* holds after.                                                            *)
validate_molecules_in_xml(summary, doc, fix) ==
    IF summary.molecules = <<>>
    THEN [result |-> NoneResult, summary |-> summary]
    ELSE IF ~doc.exists
    THEN [result |-> [valid |-> <<>>, invalid |-> summary.molecules,
                      not_found |-> summary.molecules, no_xml |-> TRUE],
          summary |-> summary]
    ELSE LET xml_text == extract_text_from_xml(doc)
             found == find_molecules(summary.molecules, xml_text)
             valid_molecules == found.valid
             invalid_molecules == found.invalid
         IN  [result |-> [valid |-> valid_molecules,
                          invalid |-> invalid_molecules,
                          not_found |-> invalid_molecules, no_xml |-> FALSE],
              summary |->
                IF fix /\ invalid_molecules # <<>>
                THEN [summary EXCEPT
                        !.molecules = valid_molecules,
                        !.molecules_validation =
                            [method |-> "xml_verification",
                             removed_molecules |-> invalid_molecules]]
                ELSE summary]

(* The lists of a stored record: each term is listed once.                 *)
ListsUpTo(S, n) ==
    {s \in SeqsUpTo(S, n) : \A i, j \in 1..Len(s) : s[i] = s[j] => i = j}

NoPass == [start |-> <<>>, stats |-> NoStats, ran |-> FALSE]
GroundingIdle ==
    /\ gDir = [f \in 1..2 |-> Summary(<<>>, <<>>)]
    /\ gXml = [f \in 1..2 |-> NoXml]
    /\ gBefore = gDir
    /\ gResults = [f \in 1..2 |-> NoneResult]
    /\ gScript = "none"
    /\ gMode = "none"
    /\ gPasses = 0
    /\ gRuns = [dry |-> NoPass, fix |-> NoPass]
    /\ gStart = gDir
GroundingInit ==
    /\ \E m \in ListsUpTo(MoleculeTerms, MaxEntities),
          k \in ListsUpTo(KeywordTerms, MaxKeywords) :
          gDir = [f \in 1..2 |->
                    IF f = 1 THEN Summary(m, k)
                    ELSE Summary(<<beta_carotene>>, <<>>)]
    /\ \E d \in {XmlFile(FeedTrial), XmlFile(RumenStudy), Malformed(FeedTrial),
                  EmptyFile, NoXml} :
          gXml = [f \in 1..2 |-> IF f = 1 THEN d ELSE XmlFile(RumenStudy)]
    /\ gBefore = gDir
    /\ gResults = [f \in 1..2 |-> NoneResult]
    /\ gScript = "none"
    /\ gMode = "none"
    /\ gPasses = 0
    /\ gRuns = [dry |-> NoPass, fix |-> NoPass]
    /\ gStart = gDir

(* main of verify_and_fix_summaries.py over the summaries directory.       *)
verify_main(fix) ==
    /\ gPasses < MaxPasses
    /\ gPasses' = gPasses + 1
    /\ gScript' = "verify"
    /\ gMode' = IF fix THEN "fix" ELSE "dry"
    /\ gBefore' = gDir
    /\ LET one == [f \in 1..2 |-> VerifyOne(gDir[f], gXml[f], fix)]
           stats == total_stats([i \in 1..Len(summary_files) |->
                                    one[summary_files[i]].result])
       IN  /\ gResults' = [f \in 1..2 |-> one[f].result]
           /\ gDir' = [f \in 1..2 |-> one[f].summary]
           /\ gRuns' = [gRuns EXCEPT
                          ![IF fix THEN "fix" ELSE "dry"] =
                              [start |-> gDir, stats |-> stats, ran |-> TRUE]]
    /\ UNCHANGED <<gXml, gStart, restOfGrounding>>

(* main of validate_molecules_in_xml.py over the summaries directory.      *)
validate_in_xml_main(fix) ==
    /\ gPasses < MaxPasses
    /\ gPasses' = gPasses + 1
    /\ gScript' = "xml"
    /\ gMode' = IF fix THEN "fix" ELSE "dry"
    /\ gBefore' = gDir
    /\ LET one == [f \in 1..2 |->
                     validate_molecules_in_xml(gDir[f], gXml[f], fix)]
       IN  /\ gResults' = [f \in 1..2 |-> one[f].result]
           /\ gDir' = [f \in 1..2 |-> one[f].summary]
    /\ UNCHANGED <<gXml, gRuns, gStart, restOfGrounding>>

GroundingNext ==
    \/ \E fix \in BOOLEAN : verify_main(fix)
    \/ \E fix \in BOOLEAN : validate_in_xml_main(fix)

(* --------- the canonical molecule store (services/research.py) --------- *)
(* str.strip *)
RECURSIVE LStrip(_)
LStrip(s) == IF s # <<>> /\ Head(s) \in Whitespace THEN LStrip(Tail(s)) ELSE s
RECURSIVE RStrip(_)
RStrip(s) ==
    IF s # <<>> /\ s[Len(s)] \in Whitespace
    THEN RStrip(SubSeq(s, 1, Len(s) - 1)) ELSE s
(* The alternatives of the prefix pattern, in its order.                   *)
prefixes ==
    << <<"l", "-">>, <<"d", "-">>, <<"d", "l", "-">>,
       <<"(", "U+00C2", "U+00B1", ")", "-">>, <<"+", "/", "-">> >>
IsPrefix(p, s) == Len(p) <= Len(s) /\ SubSeq(s, 1, Len(p)) = p
(* re.sub(r"^(...)", "", s): the first alternative that matches goes *)
RemovePrefix(s) ==
    LET matching == {k \in 1..Len(prefixes) : IsPrefix(prefixes[k], s)}
    IN  IF matching = {} THEN s
        ELSE LET k == CHOOSE m \in matching : \A n \in matching : m <= n
             IN  SubSeq(s, Len(prefixes[k]) + 1, Len(s))
(* ExtractionService._normalize_name *)
normalize_name_as_written(name) == name
normalize_name(name) ==
    IF name = <<>> THEN <<>>
    ELSE JoinSplit(RemovePrefix(RStrip(LStrip(str_lower(name)))))

(* The molecules a paper's extraction can yield: a name as the model wrote *)
(* it and a CAS number or none.                                            *)
(* "Nitrate" *)
Nitrate ==
    <<"N", "i", "t", "r", "a", "t", "e">>

(* "nitrate " (trailing space) *)
nitrate_space ==
    <<"n", "i", "t", "r", "a", "t", "e", " ">>

(* "L-Carnitine" *)
L_Carnitine ==
    <<"L", "-", "C", "a", "r", "n", "i", "t", "i", "n", "e">>

MoleculeNames == {Nitrate, nitrate_space, L_Carnitine}
NoCas == "None"
CasNumbers == {"14797-55-8", "541-15-1"}
(* A cas_number the extraction passes on as the empty string, and the      *)
(* truth value of "if extracted.cas_number:".                              *)
EmptyCas == ""
HasCas(cas_number) == cas_number \notin {NoCas, EmptyCas}
ExtractedMolecule(name, cas_number) ==
    [name |-> name, normalized_name |-> normalize_name(name),
     cas_number |-> cas_number]
Extracted ==
    {ExtractedMolecule(n, c) : n \in MoleculeNames, c \in CasNumbers \cup {NoCas}}
(* The molecules of one run's papers: two names with the same CAS number   *)
(* and with the empty string for it, and two spellings of one name         *)
(* without a CAS number.                                                   *)
ExtractedAny ==
    {ExtractedMolecule(n, c) : n \in {Nitrate, L_Carnitine},
                               c \in {"14797-55-8", EmptyCas}}
        \cup {ExtractedMolecule(n, NoCas) : n \in {Nitrate, nitrate_space}}
(* The sessions of the background tasks that store extraction results.     *)
Sessions == 1..2
SmallMolecule(id, extracted, s) ==
    [id |-> id, name |-> extracted.name,
     normalized_name |-> extracted.normalized_name,
     cas_number |-> extracted.cas_number, owner |-> s, committed |-> FALSE]
(* The rows a session's SELECT sees: the committed ones and its own.       *)
Visible(s) == {m \in small_molecules : m.committed \/ m.owner = s}
(* The unique constraints of small_molecules: normalized_name, and         *)
(* cas_number where it is not null.                                        *)
Conflicts(m, extracted) ==
    \/ m.normalized_name = extracted.normalized_name
    \/ extracted.cas_number # NoCas /\ m.cas_number = extracted.cas_number
(* An insert that conflicts with a row another transaction has not yet     *)
(* committed waits for that transaction.                                   *)
WaitsFor(s) ==
    IF storePc[s] # "create" THEN {}
    ELSE {m.owner : m \in {r \in small_molecules :
                             ~r.committed /\ r.owner # s /\ Conflicts(r, pending[s])}}
Deadlocked(s) == \E t \in WaitsFor(s) : s \in WaitsFor(t)

StoreInit ==
    /\ small_molecules = {}
    /\ storePc = [s \in Sessions |-> "idle"]
    /\ pending = [s \in Sessions |-> NoneResult]
    /\ inserts = [s \in Sessions |-> 0]
    /\ resolved = {}
    /\ nextId = 1

(* _find_or_create_molecule, first query: by normalized name.              *)
select_by_name(s, extracted) ==
    /\ storePc[s] = "idle"
    /\ inserts[s] < MaxInserts
    /\ inserts' = [inserts EXCEPT ![s] = @ + 1]
    /\ LET found == {m \in Visible(s) :
                        m.normalized_name = extracted.normalized_name}
       IN  IF found # {}
           THEN /\ resolved' = resolved \cup
                                 {<<s, extracted, (CHOOSE m \in found : TRUE).id>>}
                /\ UNCHANGED <<storePc, pending>>
           ELSE /\ pending' = [pending EXCEPT ![s] = extracted]
                /\ storePc' = [storePc EXCEPT ![s] =
                                 IF HasCas(extracted.cas_number) THEN "cas"
                                 ELSE "create"]
                /\ UNCHANGED resolved
    /\ UNCHANGED <<small_molecules, nextId, restOfStore>>

(* Second query: by CAS number, for a molecule that has one.               *)
select_by_cas(s) ==
    /\ storePc[s] = "cas"
    /\ LET found == {m \in Visible(s) : m.cas_number = pending[s].cas_number}
       IN  IF found # {}
           THEN /\ resolved' = resolved \cup
                                 {<<s, pending[s], (CHOOSE m \in found : TRUE).id>>}
                /\ storePc' = [storePc EXCEPT ![s] = "idle"]
                /\ pending' = [pending EXCEPT ![s] = NoneResult]
           ELSE /\ storePc' = [storePc EXCEPT ![s] = "create"]
                /\ UNCHANGED <<resolved, pending>>
    /\ UNCHANGED <<small_molecules, inserts, nextId, restOfStore>>

(* db.add and flush of the new molecule: the INSERT goes through.          *)
flush_new(s) ==
    /\ storePc[s] = "create"
    /\ \A m \in small_molecules : ~Conflicts(m, pending[s])
    /\ small_molecules' =
           small_molecules \cup {SmallMolecule(nextId, pending[s], s)}
    /\ resolved' = resolved \cup {<<s, pending[s], nextId>>}
    /\ nextId' = nextId + 1
    /\ storePc' = [storePc EXCEPT ![s] = "idle"]
    /\ pending' = [pending EXCEPT ![s] = NoneResult]
    /\ UNCHANGED <<inserts, restOfStore>>

(* The INSERT violates a unique constraint (or is the victim of a          *)
(* deadlock): the flush raises, the pipeline fails and _run_pipeline_task  *)
(* rolls the session back.                                                 *)
flush_raises(s) ==
    /\ storePc[s] = "create"
    /\ \/ \E m \in small_molecules :
             Conflicts(m, pending[s]) /\ (m.committed \/ m.owner = s)
       \/ Deadlocked(s)
    /\ small_molecules' = {m \in small_molecules : m.committed \/ m.owner # s}
    /\ resolved' = {t \in resolved : t[1] # s}
    /\ storePc' = [storePc EXCEPT ![s] = "failed"]
    /\ pending' = [pending EXCEPT ![s] = NoneResult]
    /\ UNCHANGED <<inserts, nextId, restOfStore>>

(* The pipeline returned: _run_pipeline_task commits the session.          *)
commit_store(s) ==
    /\ storePc[s] = "idle"
    /\ inserts[s] > 0
    /\ small_molecules' =
           {IF m.owner = s THEN [m EXCEPT !.committed = TRUE] ELSE m :
               m \in small_molecules}
    /\ storePc' = [storePc EXCEPT ![s] = "committed"]
    /\ UNCHANGED <<pending, inserts, resolved, nextId, restOfStore>>

StoreNext ==
    \/ \E s \in Sessions, extracted \in Extracted : select_by_name(s, extracted)
    \/ \E s \in Sessions : select_by_cas(s)
    \/ \E s \in Sessions : flush_new(s)
    \/ \E s \in Sessions : flush_raises(s)
    \/ \E s \in Sessions : commit_store(s)

(* ------- storing one run's results (_store_extraction_results) --------- *)
(* Relevance scores in tenths, as the LLM answers them, and               *)
(* min(max(float(score), 0.0), 1.0) of extract_from_paper.                 *)
AnsweredScores == {-2, 4, 12}
clamp_score(score) == Min(IF score > 0 THEN score ELSE 0, 10)
(* The relevance scores of extracted molecules, and context excerpts.      *)
Scores == {clamp_score(score) : score \in AnsweredScores}
Excerpts == {"first excerpt", "second excerpt"}
NoSighting == [molecule_id |-> 0, paper_id |-> 0, relevance_score |-> 0,
               context_excerpt |-> "", existed |-> FALSE, rows_before |-> 0]
LinksInit ==
    /\ run_molecules = <<>>
    /\ paper_links = {}
    /\ papers = 0
    /\ sighting = NoSighting
    /\ seen_scores = {}

(* _find_or_create_molecule within the one session: the row found by      *)
(* normalized name, else by CAS number where the molecule has one, else a  *)
(* new row, whose INSERT raises when it violates a unique constraint.      *)
find_or_create_molecule(extracted) ==
    LET by_name == {m \in Visible(1) :
                       m.normalized_name = extracted.normalized_name}
        by_cas == {m \in Visible(1) :
                      HasCas(extracted.cas_number)
                      /\ m.cas_number = extracted.cas_number}
    IN  IF by_name # {}
        THEN [id |-> (CHOOSE m \in by_name : TRUE).id, rows |-> small_molecules,
              raises |-> FALSE]
        ELSE IF by_cas # {}
        THEN [id |-> (CHOOSE m \in by_cas : TRUE).id, rows |-> small_molecules,
              raises |-> FALSE]
        ELSE IF \E m \in small_molecules : Conflicts(m, extracted)
        THEN [id |-> 0, rows |-> small_molecules, raises |-> TRUE]
        ELSE [id |-> nextId,
              rows |-> small_molecules \cup {SmallMolecule(nextId, extracted, 1)},
              raises |-> FALSE]
(* A link that takes the score of every sighting.                          *)
link_molecule_to_run_latest(links, molecule_id, relevance_score) ==
    [id \in DOMAIN links \cup {molecule_id} |->
        IF id # molecule_id THEN links[id] ELSE relevance_score]

(* _link_molecule_to_run: a new link, or the higher of the two scores.     *)
link_molecule_to_run(links, molecule_id, relevance_score) ==
    [id \in DOMAIN links \cup {molecule_id} |->
        IF id # molecule_id THEN links[id]
        ELSE IF id \in DOMAIN links /\ ~(relevance_score > links[id])
        THEN links[id] ELSE relevance_score]
(* _link_molecule_to_paper: a new link unless the pair is linked already.  *)
link_molecule_to_paper(links, molecule_id, paper_id, context_excerpt) ==
    IF \E l \in links : l.molecule_id = molecule_id /\ l.paper_id = paper_id
    THEN links
    ELSE links \cup {[molecule_id |-> molecule_id, paper_id |-> paper_id,
                      context_excerpt |-> context_excerpt]}

(* The outer loop of _store_extraction_results: the next paper's summary   *)
(* is added.                                                               *)
add_paper ==
    /\ storePc[1] = "idle"
    /\ papers < MaxInserts
    /\ papers' = papers + 1
    /\ UNCHANGED <<run_molecules, paper_links, sighting, seen_scores, storeVars,
                   restOfLinks>>

(* The inner loop: one extracted molecule of the current paper is found    *)
(* or created and linked to the run and to the paper.  When the INSERT     *)
(* raises, the pipeline fails and _run_pipeline_task rolls back what the   *)
(* session has written.                                                    *)
store_molecule(extracted, relevance_score, context_excerpt) ==
    /\ papers > 0
    /\ storePc[1] = "idle"
    /\ inserts[1] < MaxInserts
    /\ inserts' = [inserts EXCEPT ![1] = @ + 1]
    /\ LET molecule == find_or_create_molecule(extracted)
       IN  IF molecule.raises
           THEN
           /\ storePc' = [storePc EXCEPT ![1] = "failed"]
           /\ small_molecules' = {}
           /\ resolved' = {}
           /\ run_molecules' = <<>>
           /\ paper_links' = {}
           /\ sighting' = NoSighting
           /\ seen_scores' = {}
           /\ nextId' = nextId
           ELSE
           /\ storePc' = storePc
           /\ small_molecules' = molecule.rows
           /\ nextId' = IF molecule.rows = small_molecules THEN nextId
                        ELSE nextId + 1
           /\ resolved' = resolved \cup {<<1, extracted, molecule.id>>}
           /\ run_molecules' = link_molecule_to_run(run_molecules, molecule.id,
                                                    relevance_score)
           /\ paper_links' = link_molecule_to_paper(paper_links, molecule.id,
                                                    papers, context_excerpt)
           /\ sighting' = [molecule_id |-> molecule.id, paper_id |-> papers,
                           relevance_score |-> relevance_score,
                           context_excerpt |-> context_excerpt,
                           existed |-> molecule.rows = small_molecules,
                           rows_before |-> Cardinality(small_molecules)]
           /\ seen_scores' = seen_scores \cup {<<molecule.id, relevance_score>>}
    /\ UNCHANGED <<papers, pending, restOfLinks>>

LinksNext ==
    \/ add_paper
    \/ \E extracted \in ExtractedAny, relevance_score \in Scores,
          context_excerpt \in Excerpts :
          store_molecule(extracted, relevance_score, context_excerpt)

(* ------ reading the answers of stages 3 and 4 (re.search, json.loads) --- *)
(* A response is a sequence of tokens: the JSON punctuation characters,    *)
(* quoted strings, numbers, and the words of prose.  White space between   *)
(* tokens is left out: neither the regular expressions nor json.loads      *)
(* depend on it.  No quoted string or word holds a bracket or a brace.     *)
JsonStrings ==
    { "\"nitrate\"", "\"methane\"", "\"topics\"", "\"keywords\"", "\"pmid\"" }
JsonNumbers == { "1" }

(* The Python str a quoted string stands for.                              *)
Unquote ==
    [ q \in JsonStrings |->
        CASE q = "\"nitrate\"" -> "nitrate"
          [] q = "\"methane\"" -> "methane"
          [] q = "\"topics\"" -> "topics"
          [] q = "\"keywords\"" -> "keywords"
          [] q = "\"pmid\"" -> "pmid" ]

(* Python values: str, int, list and dict.                                 *)
PyStr(s) == [str |-> s]
PyInt(n) == [int |-> n]
PyList(items) == [list |-> items]
PyDict(members) == [dict |-> members]
EmptyDict == [k \in {} |-> PyList(<<>>)]
JSONDecodeError == [error |-> "JSONDecodeError"]

(* json.loads, by recursive descent from token i on: the value and the     *)
(* position after it, or JSONDecodeError.                                  *)
RECURSIVE parse_value(_, _)
RECURSIVE parse_array(_, _, _)
RECURSIVE parse_object(_, _, _)
parse_value(s, i) ==
    IF i > Len(s) THEN JSONDecodeError
    ELSE IF s[i] \in JsonStrings
    THEN [value |-> PyStr(Unquote[s[i]]), end |-> i + 1]
    ELSE IF s[i] \in JsonNumbers
    THEN [value |-> PyInt(s[i]), end |-> i + 1]
    ELSE IF s[i] = "["
    THEN IF i + 1 <= Len(s) /\ s[i + 1] = "]"
         THEN [value |-> PyList(<<>>), end |-> i + 2]
         ELSE parse_array(s, i + 1, <<>>)
    ELSE IF s[i] = "{"
    THEN IF i + 1 <= Len(s) /\ s[i + 1] = "}"
         THEN [value |-> PyDict(EmptyDict), end |-> i + 2]
         ELSE parse_object(s, i + 1, EmptyDict)
    ELSE JSONDecodeError

parse_array(s, i, items) ==
    LET v == parse_value(s, i)
    IN  IF v = JSONDecodeError \/ v.end > Len(s) THEN JSONDecodeError
        ELSE IF s[v.end] = ","
        THEN parse_array(s, v.end + 1, Append(items, v.value))
        ELSE IF s[v.end] = "]"
        THEN [value |-> PyList(Append(items, v.value)), end |-> v.end + 1]
        ELSE JSONDecodeError

parse_object(s, i, members) ==
    IF i + 1 > Len(s) \/ s[i] \notin JsonStrings \/ s[i + 1] # ":"
    THEN JSONDecodeError
    ELSE LET v == parse_value(s, i + 2)
             now == [k \in DOMAIN members \cup {Unquote[s[i]]} |->
                        IF k = Unquote[s[i]] THEN v.value ELSE members[k]]
         IN  IF v = JSONDecodeError \/ v.end > Len(s) THEN JSONDecodeError
             ELSE IF s[v.end] = ","
             THEN parse_object(s, v.end + 1, now)
             ELSE IF s[v.end] = "}"
             THEN [value |-> PyDict(now), end |-> v.end + 1]
             ELSE JSONDecodeError

json_loads(s) ==
    LET v == parse_value(s, 1)
    IN  IF v = JSONDecodeError \/ v.end # Len(s) + 1 THEN JSONDecodeError
        ELSE v.value

(* re.search(open + '.*' + close, text, re.DOTALL).group(): from the first *)
(* opening character that has a closing one after it, to the last closing  *)
(* character of the text; the empty sequence stands for no match.          *)
re_search(open, close, text) ==
    LET starts == { i \in 1..Len(text) :
                       /\ text[i] = open
                       /\ \E j \in (i + 1)..Len(text) : text[j] = close }
    IN  IF starts = {} THEN <<>>
        ELSE LET first == CHOOSE i \in starts : \A k \in starts : i <= k
                 last == CHOOSE j \in (first + 1)..Len(text) :
                            /\ text[j] = close
                            /\ \A k \in (j + 1)..Len(text) : text[k] # close
             IN  SubSeq(text, first, last)

(* stage3_molecules on the response of call_claude.                        *)
stage3_molecules(response) ==
    LET json_match == re_search("[", "]", response)
    IN  IF json_match # <<>>
        THEN IF json_loads(json_match) = JSONDecodeError
             THEN PyList(<<>>)
             ELSE json_loads(json_match)
        ELSE PyList(<<>>)

(* The dictionary both processors fall back to in stage 4.                 *)
NoTopics(pmid) ==
    PyDict([k \in {"pmid", "topics", "keywords"} |->
               IF k = "pmid" THEN PyStr(pmid) ELSE PyList(<<>>)])

(* stage4_topics_keywords on the response of call_claude.                  *)
stage4_topics_keywords(response, pmid) ==
    LET json_match == re_search("{", "}", response)
    IN  IF json_match # <<>>
        THEN IF json_loads(json_match) = JSONDecodeError
             THEN NoTopics(pmid)
             ELSE json_loads(json_match)
        ELSE NoTopics(pmid)

(* The responses: prose or nothing, then an answer, then prose or nothing. *)
Before == { <<>>, <<"Here", "they", "are", ":">>, <<"[", "1", "]", "lists">> }
Answers3 ==
    { <<>>,
      <<"[", "]">>,
      <<"[", "\"nitrate\"", "]">>,
      <<"[", "\"nitrate\"", ",", "\"methane\"", "]">>,
      <<"[", "nitrate", "]">>,
      <<"[", "\"nitrate\"", ",", "]">>,
      <<"[", "\"nitrate\"">> }
Answers4 ==
    { <<>>,
      <<"{", "\"pmid\"", ":", "1", ",", "\"topics\"", ":", "[", "\"methane\"",
        "]", ",", "\"keywords\"", ":", "[", "\"nitrate\"", "]", "}">>,
      <<"{", "\"topics\"", ":", "[", "\"methane\"", "]", ",", "\"keywords\"",
        ":", "[", "]", "}">>,
      <<"{", "\"topics\"", ":", "[", "methane", "]", "}">>,
      <<"{", "\"topics\"", ":", "[", "\"methane\"", "]">> }
After ==
    { <<>>, <<"Done", ".">>, <<"(", "see", "[", "1", "]", ")">>,
      <<"{", "note", "}">>, <<"]">>, <<"}">> }
Responses ==
    { b \o a \o c : b \in Before, a \in Answers3 \cup Answers4, c \in After }

NotParsed == [none |-> TRUE]
ParseIdle ==
    /\ response_text = <<>>
    /\ extracted_molecules = NotParsed
    /\ topics_data = NotParsed
ParseInit ==
    /\ response_text \in Responses
    /\ extracted_molecules = NotParsed
    /\ topics_data = NotParsed

(* process_article, stage 3 on the answer.                                 *)
stage3 ==
    /\ extracted_molecules = NotParsed
    /\ extracted_molecules' = stage3_molecules(response_text)
    /\ UNCHANGED <<response_text, topics_data, restOfParse>>

(* process_article, stage 4 on the answer.                                 *)
stage4 ==
    /\ topics_data = NotParsed
    /\ topics_data' = stage4_topics_keywords(response_text, "1")
    /\ UNCHANGED <<response_text, extracted_molecules, restOfParse>>

ParseNext ==
    \/ stage3
    \/ stage4

(* ------------- loading one article (clean_xml_text, ElementTree) ------- *)
(* An element: its tag, the text before its first child, its children,     *)
(* and its tail, the text between its end tag and the next tag.  A text is *)
(* the sequence of its words: str.strip, ' '.join and                      *)
(* re.sub(r'\s+', ' ', ...).strip() leave the words, one space apart, so   *)
(* joining the stripped parts is concatenating word sequences, and a       *)
(* missing or blank text is the empty sequence.                            *)
Element(tag, text, children, tail) ==
    [tag |-> tag, text |-> text, children |-> children, tail |-> tail]

(* Element.iter(): the element and its descendants, in document order.     *)
RECURSIVE iter_all(_)
iter_all(elems) ==
    IF elems = <<>> THEN <<>>
    ELSE <<Head(elems)>> \o iter_all(Head(elems).children)
             \o iter_all(Tail(elems))
iter(elem) == iter_all(<<elem>>)

(* Element.itertext(): the inner text of the element, in document order.   *)
RECURSIVE itertext(_)
RECURSIVE itertext_all(_)
itertext(elem) == elem.text \o itertext_all(elem.children)
itertext_all(elems) ==
    IF elems = <<>> THEN <<>>
    ELSE itertext(Head(elems)) \o Head(elems).tail
             \o itertext_all(Tail(elems))

(* root.findall('.//' + tag): the descendants of root with that tag.       *)
findall(root, tag) ==
    SelectSeq(iter_all(root.children), LAMBDA elem : elem.tag = tag)

(* The loop over elem.text and elem.tail of one section's iter().          *)
RECURSIVE text_and_tail(_)
text_and_tail(elems) ==
    IF elems = <<>> THEN <<>>
    ELSE Head(elems).text \o Head(elems).tail \o text_and_tail(Tail(elems))

(* The loop over the sections root.findall finds.                          *)
RECURSIVE section_parts(_)
section_parts(sections) ==
    IF sections = <<>> THEN <<>>
    ELSE text_and_tail(iter(Head(sections))) \o section_parts(Tail(sections))

NotWellFormed == [ParseError |-> TRUE]
NoSections == [title |-> <<>>, abstract |-> <<>>, body |-> <<>>]

(* clean_xml_text on a parsed document, or on one ET.parse rejects.        *)
clean_xml_tree(root) ==
    IF root = NotWellFormed THEN NoSections
    ELSE LET title_elems == findall(root, "article-title")
         IN  [title |-> IF title_elems = <<>> THEN <<>>
                        ELSE itertext(title_elems[1]),
              abstract |-> section_parts(findall(root, "abstract")),
              body |-> section_parts(findall(root, "body"))]

(* The content of a section, written with the words w: nothing, one        *)
(* paragraph, a paragraph with an inline element, a paragraph with an      *)
(* inline element inside an inline element, and text directly inside the   *)
(* section around an inline element.                                       *)
Shapes == 1..5
Content(shape, w) ==
    CASE shape = 1 -> [text |-> <<>>, children |-> <<>>]
      [] shape = 2 -> [text |-> <<>>, children |->
             << Element("p", <<w[1]>>, <<>>, <<>>) >>]
      [] shape = 3 -> [text |-> <<>>, children |->
             << Element("p", <<w[1]>>,
                    << Element("italic", <<w[2]>>, <<>>, <<w[3]>>) >>,
                    <<>>) >>]
      [] shape = 4 -> [text |-> <<>>, children |->
             << Element("p", <<w[1]>>,
                    << Element("italic", <<w[2]>>,
                           << Element("sub", <<w[3]>>, <<>>, <<w[4]>>) >>,
                           <<w[5]>>) >>,
                    <<>>) >>]
      [] shape = 5 -> [text |-> <<w[1]>>, children |->
             << Element("italic", <<w[2]>>, <<>>, <<w[3]>>) >>]

AbstractWords == <<"Nitrate", "lowers", "methane", "in", "vitro">>
BodyWords == <<"Cows", "were", "fed", "corn", "silage">>
Tails == { <<>>, <<"Footnote">> }

Section(tag, shape, w, tail) ==
    Element(tag, Content(shape, w).text, Content(shape, w).children, tail)

(* <article><front><article-title/><abstract/>..</front><body/>..</article> *)
Article(withTitle, abstractShape, abstractTail, bodyShape, bodyTail) ==
    Element("article", <<>>,
        << Element("front", <<>>,
               (IF withTitle
                THEN << Element("article-title", <<"Rumen">>,
                            << Element("italic", <<"in">>, <<>>, <<"vivo">>) >>,
                            <<>>) >>
                ELSE <<>>)
               \o << Section("abstract", abstractShape, AbstractWords,
                             abstractTail) >>,
               <<>>),
           Section("body", bodyShape, BodyWords, bodyTail) >>,
        <<>>)

Documents ==
    { Article(t, a, at, b, bt) :
          t \in BOOLEAN, a \in Shapes, at \in Tails, b \in Shapes, bt \in Tails }
        \cup { NotWellFormed }

NotLoaded == [loaded |-> FALSE]
LoaderIdle ==
    /\ document = NotWellFormed
    /\ text_sections = NotLoaded
LoaderInit ==
    /\ document \in Documents
    /\ text_sections = NotLoaded

(* process_article, from the call of clean_xml_text to its return.         *)
load_article ==
    /\ text_sections = NotLoaded
    /\ text_sections' = clean_xml_tree(document)
    /\ UNCHANGED <<document, restOfLoader>>

LoaderNext == load_article

(* ------------- one call of call_claude (process_articles_fast.py) ------ *)
(* str(e) of the exceptions client.messages.create raises: a 429, a 500,   *)
(* and a 400 whose message reports the size of the prompt.                 *)
(* "Error code: 429 - rate_limit_error" *)
rate_limit_error ==
    <<"E", "r", "r", "o", "r", " ", "c", "o", "d", "e", ":", " ", "4", "2",
      "9", " ", "-", " ", "r", "a", "t", "e", "_", "l", "i", "m", "i", "t",
      "_", "e", "r", "r", "o", "r">>

(* "Error code: 500 - api_error" *)
api_error ==
    <<"E", "r", "r", "o", "r", " ", "c", "o", "d", "e", ":", " ", "5", "0",
      "0", " ", "-", " ", "a", "p", "i", "_", "e", "r", "r", "o", "r">>

(* "Error code: 400 - prompt is too long: 214290 tokens" *)
prompt_too_long ==
    <<"E", "r", "r", "o", "r", " ", "c", "o", "d", "e", ":", " ", "4", "0",
      "0", " ", "-", " ", "p", "r", "o", "m", "p", "t", " ", "i", "s", " ",
      "t", "o", "o", " ", "l", "o", "n", "g", ":", " ", "2", "1", "4", "2",
      "9", "0", " ", "t", "o", "k", "e", "n", "s">>

(* What one request can end in: a completion, the throttling error (HTTP   *)
(* 429), or another error.                                                 *)
Outcomes ==
    { [kind |-> "success", reply |-> ProseReply],
      [kind |-> "throttling", error_str |-> rate_limit_error],
      [kind |-> "error", error_str |-> api_error],
      [kind |-> "error", error_str |-> prompt_too_long] }

(* '"429" in error_str or "rate_limit" in error_str.lower()'               *)
is_rate_limit(error_str) ==
    \/ IsSubstring(<<"4", "2", "9">>, error_str)
    \/ IsSubstring(<<"r", "a", "t", "e", "_", "l", "i", "m", "i", "t">>,
                   str_lower(error_str))

(* What the retry loop makes of an outcome.                                *)
Signal(outcome) ==
    IF outcome.kind = "success" THEN "ok"
    ELSE IF is_rate_limit(outcome.error_str) THEN "throttle"
    ELSE "error"

NotReturned == [returned |-> FALSE]
CallIdle ==
    /\ cOutcomes = <<>>
    /\ cAttempt = 0
    /\ cPc = "returned"
    /\ cSlept = <<>>
    /\ cReturned = EmptyReply
CallInit ==
    /\ cOutcomes \in [1..max_retries -> Outcomes]
    /\ cAttempt = 0
    /\ cPc = "request"
    /\ cSlept = <<>>
    /\ cReturned = NotReturned

(* One iteration of "for attempt in range(max_retries)": the request and   *)
(* what the loop does with its outcome.  The loop never runs out: it       *)
(* continues only when attempt < max_retries - 1.                          *)
call_claude_attempt ==
    /\ cPc = "request"
    /\ LET outcome == cOutcomes[cAttempt + 1]
           step == call_claude_step(cAttempt, Signal(outcome),
                       IF outcome.kind = "success" THEN outcome.reply
                       ELSE EmptyReply)
       IN  IF step.do = "sleep"
           THEN /\ cPc' = "sleeping"
                /\ cSlept' = Append(cSlept, step.wait)
                /\ cReturned' = cReturned
           ELSE /\ cPc' = "returned"
                /\ cSlept' = cSlept
                /\ cReturned' = step.reply
    /\ UNCHANGED <<cOutcomes, cAttempt, restOfCall>>

(* asyncio.sleep(wait_time) is over; continue.                             *)
call_claude_continue ==
    /\ cPc = "sleeping"
    /\ cAttempt' = cAttempt + 1
    /\ cPc' = "request"
    /\ UNCHANGED <<cOutcomes, cSlept, cReturned, restOfCall>>

CallNext ==
    \/ call_claude_attempt
    \/ call_claude_continue

(* ------- the waves of main (process_articles_fast.py, BATCH_SIZE) ------ *)
(* main takes xml_files in slices of BATCH_SIZE = 100 files.  WaveSize     *)
(* stands for BATCH_SIZE, scaled down so that a second slice exists: the   *)
(* directory holds one full slice and MAX_CONCURRENT_ARTICLES files more.  *)
Articles == 1..(WaveSize + MAX_CONCURRENT_ARTICLES)

(* xml_files[i:i+BATCH_SIZE] for i = wave * BATCH_SIZE                     *)
Slice(wave) == { a \in Articles : (a - 1) \div WaveSize = wave }

Finished == {"processed", "skipped", "errored"}

(* A gather that returns as soon as one of its tasks has finished.         *)
gather_returned_first(tasks, slice) ==
    \E a \in slice : tasks[a] \in Finished
(* asyncio.gather with return_exceptions=True returns once every task has  *)
(* returned or raised.                                                     *)
gather_returned(tasks, slice) ==
    \A a \in slice : tasks[a] \in Finished

WavesIdle ==
    /\ wTask = [a \in Articles |-> "none"]
    /\ wWave = 0
    /\ wPc = "done"
    /\ wPermits = MAX_CONCURRENT_ARTICLES
WavesInit ==
    /\ wTask = [a \in Articles |-> "none"]
    /\ wWave = 0
    /\ wPc = "loop"
    /\ wPermits = MAX_CONCURRENT_ARTICLES

(* process_batch: a new processor with its own semaphore, one task per     *)
(* file of the slice, all handed to gather.                                *)
process_batch ==
    /\ wPc = "loop"
    /\ wTask' = [a \in Articles |-> IF a \in Slice(wWave) THEN "created"
                                    ELSE wTask[a]]
    /\ wPermits' = MAX_CONCURRENT_ARTICLES
    /\ wPc' = "gather"
    /\ UNCHANGED <<wWave, restOfWaves>>

(* "async with self.semaphore": the tasks enter in list order while the    *)
(* semaphore has a permit.                                                 *)
enter_article(a) ==
    /\ wPc = "gather"
    /\ wTask[a] = "created"
    /\ \A b \in Articles : wTask[b] = "created" => a <= b
    /\ wPermits > 0
    /\ wPermits' = wPermits - 1
    /\ wTask' = [wTask EXCEPT ![a] = "running"]
    /\ UNCHANGED <<wWave, wPc, restOfWaves>>

(* process_article returns a record, returns None, or raises; the permit   *)
(* goes back.                                                              *)
leave_article(a, outcome) ==
    /\ wPc = "gather"
    /\ wTask[a] = "running"
    /\ wPermits' = wPermits + 1
    /\ wTask' = [wTask EXCEPT ![a] = outcome]
    /\ UNCHANGED <<wWave, wPc, restOfWaves>>

(* "batch_results = await process_batch(batch, i)" returns; the loop goes  *)
(* on with the next slice, or ends.                                        *)
next_batch ==
    /\ wPc = "gather"
    /\ gather_returned(wTask, Slice(wWave))
    /\ wWave' = wWave + 1
    /\ wPc' = IF Slice(wWave + 1) # {} THEN "loop" ELSE "done"
    /\ UNCHANGED <<wTask, wPermits, restOfWaves>>

WavesNext ==
    \/ process_batch
    \/ \E a \in Articles : enter_article(a)
    \/ \E a \in Articles, outcome \in Finished : leave_article(a, outcome)
    \/ next_batch

(* ------------- the article text of the four requests ------------------- *)
(* stage1_clean_text of the fast processor: text[:300000] + "\n\n[Truncated]" *)
(* when the text is longer.                                                *)
stage1_text(text) ==
    IF text.len > max_chars THEN Text("full-truncated", max_chars + 13)
    ELSE text

(* The article text each stage executor puts into its prompt.  In the fast *)
(* processor every stage is given full_text and only stage 1 cuts it; in   *)
(* the parallel one stage 1 builds and cuts its own combined text and the  *)
(* other stages are given the same f-string as full_text.                  *)
article_text(v, s, sections) ==
    IF s = 1
    THEN IF v = "fast" THEN stage1_text(full_text(sections))
         ELSE combined_text(sections)
    ELSE full_text(sections)

(* Bodies from the shortest one processed to ones past the budget.         *)
BodyLengths ==
    { MIN_BODY_LENGTH, max_chars - 100, max_chars - 21, max_chars,
      max_chars + 1, 2 * max_chars }
SectionLengths ==
    { [title |-> Text("title", t), abstract |-> Text("abstract", a),
       body |-> Text("body", b)] :
          t \in {0, 12}, a \in {0, 40}, b \in BodyLengths }

NotSent == [sent |-> FALSE]
PromptIdle ==
    /\ tVariant = "fast"
    /\ tSections = [title |-> EmptyText, abstract |-> EmptyText,
                    body |-> EmptyText]
    /\ tSent = [s \in Stages |-> NotSent]
PromptInit ==
    /\ tVariant \in Variants
    /\ tSections \in SectionLengths
    /\ tSent = [s \in Stages |-> NotSent]

(* Stage s of process_article builds its prompt and sends the request.     *)
send_request(s) ==
    /\ tSent[s] = NotSent
    /\ tSent' = [tSent EXCEPT ![s] = article_text(tVariant, s, tSections)]
    /\ UNCHANGED <<tVariant, tSections, restOfPrompt>>

PromptNext == \E s \in Stages : send_request(s)

(* ------------- the two gates of the fast processor, nested ------------- *)
(* One wave of MAX_CONCURRENT_ARTICLES articles that have text, and one    *)
(* more task, whose file name holds no PMID: twelve calls for ten permits  *)
(* of the rate limiter, four tasks for three permits of the article gate.  *)
GateArticles == 1..(MAX_CONCURRENT_ARTICLES + 1)
WithoutPmid == MAX_CONCURRENT_ARTICLES + 1
(* The call whose requests the environment lets fail.                      *)
FaultyCall == <<1, 1>>

NotCalled == [st |-> "idle", attempt |-> 0]
GatesIdle ==
    /\ kPc = [a \in GateArticles |-> "done"]
    /\ kCall = [a \in GateArticles |-> [s \in Stages |-> NotCalled]]
    /\ kSem = MAX_CONCURRENT_ARTICLES
    /\ kSemQueue = <<>>
    /\ kRl = MAX_API_CALLS_PER_SECOND
    /\ kRlQueue = <<>>
    /\ kFaults = 0
(* process_batch has built the processor and the tasks of the wave.        *)
GatesInit ==
    /\ kPc = [a \in GateArticles |-> "new"]
    /\ kCall = [a \in GateArticles |-> [s \in Stages |-> NotCalled]]
    /\ kSem = MAX_CONCURRENT_ARTICLES
    /\ kSemQueue = <<>>
    /\ kRl = MAX_API_CALLS_PER_SECOND
    /\ kRlQueue = <<>>
    /\ kFaults \in 0..max_retries

(* The tasks gather created take their first step, in list order, before  *)
(* the loop handles any completion.                                        *)
AllEntered == \A a \in GateArticles : kPc[a] # "new"

(* Leaving "async with self.rate_limiter" after call c: the permit goes to *)
(* the first waiting call, which sends its request, or back to the         *)
(* limiter.  A release that wakes no waiter comes first.                   *)
leave_rate_limiter_unheard(c) ==
    /\ kCall' = [kCall EXCEPT ![c[1]][c[2]] = [st |-> "done", attempt |-> @.attempt]]
    /\ kRlQueue' = kRlQueue
    /\ kRl' = kRl + 1

leave_rate_limiter(c) ==
    IF kRlQueue # <<>>
    THEN LET h == Head(kRlQueue)
         IN  /\ kCall' = [kCall EXCEPT
                    ![c[1]][c[2]] = [st |-> "done", attempt |-> @.attempt],
                    ![h[1]][h[2]] = [st |-> "inflight", attempt |-> 0]]
             /\ kRlQueue' = Tail(kRlQueue)
             /\ kRl' = kRl
    ELSE /\ kCall' = [kCall EXCEPT ![c[1]][c[2]] = [st |-> "done", attempt |-> @.attempt]]
         /\ kRlQueue' = kRlQueue
         /\ kRl' = kRl + 1

(* Leaving "async with self.semaphore".                                    *)
leave_semaphore(a, p) ==
    IF kSemQueue # <<>>
    THEN /\ kPc' = [kPc EXCEPT ![a] = "done", ![Head(kSemQueue)] = "admitted"]
         /\ kSemQueue' = Tail(kSemQueue)
         /\ kSem' = p
    ELSE /\ kPc' = [kPc EXCEPT ![a] = "done"]
         /\ kSemQueue' = kSemQueue
         /\ kSem' = p + 1

(* Inside the article gate: a file name without PMID returns None; else    *)
(* the text is parsed and gather starts the four stage coroutines, each of *)
(* which enters call_claude and takes a permit of the rate limiter or      *)
(* waits for one.                                                          *)
inside_semaphore(a, p) ==
    IF a = WithoutPmid
    THEN leave_semaphore(a, p) /\ UNCHANGED <<kCall, kRl, kRlQueue>>
    ELSE LET n == IF kRlQueue = <<>> THEN Min(kRl, 4) ELSE 0
         IN  /\ kPc' = [kPc EXCEPT ![a] = "stages"]
             /\ kSem' = p
             /\ kSemQueue' = kSemQueue
             /\ kCall' = [kCall EXCEPT ![a] =
                    [s \in Stages |->
                        [st |-> IF s <= n THEN "inflight" ELSE "queued",
                         attempt |-> 0]]]
             /\ kRl' = kRl - n
             /\ kRlQueue' = kRlQueue \o [i \in 1..(4 - n) |-> <<a, n + i>>]

(* The first step of the next task of the wave: "async with                *)
(* self.semaphore" admits it or makes it wait.                             *)
enter_semaphore(a) ==
    /\ kPc[a] = "new"
    /\ \A b \in GateArticles : b < a => kPc[b] # "new"
    /\ IF kSem > 0
       THEN inside_semaphore(a, kSem - 1)
       ELSE /\ kPc' = [kPc EXCEPT ![a] = "wait"]
            /\ kSemQueue' = Append(kSemQueue, a)
            /\ UNCHANGED <<kSem, kCall, kRl, kRlQueue>>
    /\ UNCHANGED <<kFaults, restOfGates>>

(* A task woken with a permit goes on.                                     *)
resume_article(a) ==
    /\ AllEntered
    /\ kPc[a] = "admitted"
    /\ inside_semaphore(a, kSem)
    /\ UNCHANGED <<kFaults, restOfGates>>

(* client.messages.create returns: call_claude returns the text.           *)
request_returns(a, s) ==
    /\ AllEntered
    /\ kCall[a][s].st = "inflight"
    /\ leave_rate_limiter(<<a, s>>)
    /\ UNCHANGED <<kPc, kSem, kSemQueue, kFaults, restOfGates>>

(* client.messages.create raises: a throttling error before the last       *)
(* attempt makes the call sleep with its permit, any other error and the   *)
(* last attempt make it return "".                                         *)
request_raises(a, s, signal) ==
    /\ AllEntered
    /\ kCall[a][s].st = "inflight"
    /\ <<a, s>> = FaultyCall
    /\ kFaults > 0
    /\ kFaults' = kFaults - 1
    /\ IF WillRetry("fast", kCall[a][s].attempt, signal)
       THEN /\ kCall' = [kCall EXCEPT ![a][s] =
                            [st |-> "sleeping", attempt |-> @.attempt]]
            /\ UNCHANGED <<kRl, kRlQueue>>
       ELSE leave_rate_limiter(<<a, s>>)
    /\ UNCHANGED <<kPc, kSem, kSemQueue, restOfGates>>

(* asyncio.sleep(wait_time) is over: the next attempt.                     *)
sleep_returns(a, s) ==
    /\ AllEntered
    /\ kCall[a][s].st = "sleeping"
    /\ kCall' = [kCall EXCEPT ![a][s] =
                    [st |-> "inflight", attempt |-> @.attempt + 1]]
    /\ UNCHANGED <<kPc, kSem, kSemQueue, kRl, kRlQueue, kFaults, restOfGates>>

(* gather has the four values: the record is written, or the write raises, *)
(* and the task leaves the article gate either way.                        *)
article_returns(a, written) ==
    /\ AllEntered
    /\ kPc[a] = "stages"
    /\ \A s \in Stages : kCall[a][s].st = "done"
    /\ leave_semaphore(a, kSem)
    /\ UNCHANGED <<kCall, kRl, kRlQueue, kFaults, restOfGates>>

GatesNext ==
    \/ \E a \in GateArticles : enter_semaphore(a)
    \/ \E a \in GateArticles : resume_article(a)
    \/ \E a \in GateArticles, s \in Stages : request_returns(a, s)
    \/ \E a \in GateArticles, s \in Stages, signal \in {"throttle", "error"} :
          request_raises(a, s, signal)
    \/ \E a \in GateArticles, s \in Stages : sleep_returns(a, s)
    \/ \E a \in GateArticles, written \in BOOLEAN : article_returns(a, written)

(* --------------------------- specifications ---------------------------- *)
PipeIdle == PipeInit /\ variant = "fast" /\ batch = Files
Init == PipeInit /\ ResearchInit /\ RegistryIdle /\ GroundingIdle /\ StoreInit /\ LinksInit /\ ParseIdle /\ LoaderIdle /\ CallIdle /\ WavesIdle /\ PromptIdle /\ GatesIdle
Next == PipeNext
Spec == Init /\ [][Next]_vars

(* The backend alone, the batch scripts not running.                       *)
InitResearch == PipeIdle /\ ResearchInit /\ RegistryIdle /\ GroundingIdle /\ StoreInit /\ LinksInit /\ ParseIdle /\ LoaderIdle /\ CallIdle /\ WavesIdle /\ PromptIdle /\ GatesIdle
SpecResearch == InitResearch /\ [][ResearchNext]_vars

(* The registry check alone.                                               *)
InitRegistry == PipeIdle /\ ResearchInit /\ RegistryInit /\ GroundingIdle /\ StoreInit /\ LinksInit /\ ParseIdle /\ LoaderIdle /\ CallIdle /\ WavesIdle /\ PromptIdle /\ GatesIdle
SpecRegistry == InitRegistry /\ [][RegistryNext]_vars

(* The source-grounding scripts alone.                                     *)
InitGrounding == PipeIdle /\ ResearchInit /\ RegistryIdle /\ GroundingInit /\ StoreInit /\ LinksInit /\ ParseIdle /\ LoaderIdle /\ CallIdle /\ WavesIdle /\ PromptIdle /\ GatesIdle
SpecGrounding == InitGrounding /\ [][GroundingNext]_vars

(* The canonical molecule store alone.                                     *)
InitStore == PipeIdle /\ ResearchInit /\ RegistryIdle /\ GroundingIdle /\ StoreInit /\ LinksInit /\ ParseIdle /\ LoaderIdle /\ CallIdle /\ WavesIdle /\ PromptIdle /\ GatesIdle
SpecStore == InitStore /\ [][StoreNext]_vars

(* One run storing its extraction results.                                 *)
SpecLinks == InitStore /\ [][LinksNext]_vars

(* Reading one answer.                                                     *)
InitParse == PipeIdle /\ ResearchInit /\ RegistryIdle /\ GroundingIdle /\ StoreInit /\ LinksInit /\ ParseInit /\ LoaderIdle /\ CallIdle /\ WavesIdle /\ PromptIdle /\ GatesIdle
SpecParse == InitParse /\ [][ParseNext]_vars

(* Loading one article.                                                    *)
InitLoader == PipeIdle /\ ResearchInit /\ RegistryIdle /\ GroundingIdle /\ StoreInit /\ LinksInit /\ ParseIdle /\ LoaderInit /\ CallIdle /\ WavesIdle /\ PromptIdle /\ GatesIdle
SpecLoader == InitLoader /\ [][LoaderNext]_vars

(* One call of call_claude.                                                *)
InitCall == PipeIdle /\ ResearchInit /\ RegistryIdle /\ GroundingIdle /\ StoreInit /\ LinksInit /\ ParseIdle /\ LoaderIdle /\ CallInit /\ WavesIdle /\ PromptIdle /\ GatesIdle
SpecCall == InitCall /\ [][CallNext]_vars

(* The waves of one invocation.                                            *)
InitWaves == PipeIdle /\ ResearchInit /\ RegistryIdle /\ GroundingIdle /\ StoreInit /\ LinksInit /\ ParseIdle /\ LoaderIdle /\ CallIdle /\ WavesInit /\ PromptIdle /\ GatesIdle
SpecWaves == InitWaves /\ [][WavesNext]_vars

(* The requests of one article.                                            *)
InitPrompt == PipeIdle /\ ResearchInit /\ RegistryIdle /\ GroundingIdle /\ StoreInit /\ LinksInit /\ ParseIdle /\ LoaderIdle /\ CallIdle /\ WavesIdle /\ PromptInit /\ GatesIdle
SpecPrompt == InitPrompt /\ [][PromptNext]_vars

(* The research-run backend started on a table that already holds runs.    *)
InitStored == PipeIdle /\ StoredInit /\ RegistryIdle /\ GroundingIdle /\ StoreInit /\ LinksInit /\ ParseIdle /\ LoaderIdle /\ CallIdle /\ WavesIdle /\ PromptIdle /\ GatesIdle
SpecStored == InitStored /\ [][ResearchNext]_vars

(* One wave at the two gates, with its scheduling: the event loop runs     *)
(* every task that is ready, every request returns or raises and every     *)
(* sleep ends.                                                             *)
InitGates == PipeIdle /\ ResearchInit /\ RegistryIdle /\ GroundingIdle /\ StoreInit /\ LinksInit /\ ParseIdle /\ LoaderIdle /\ CallIdle /\ WavesIdle /\ PromptIdle /\ GatesInit
SpecGates == InitGates /\ [][GatesNext]_vars /\ WF_vars(GatesNext)

(* The research-run backend with its scheduling: FastAPI runs every        *)
(* background task it was handed (add_task), every awaited external call   *)
(* of the pipeline returns or raises, and the task then runs on to its     *)
(* commit or rollback.                                                     *)
TaskRuns(id) ==
    \/ TaskStart(id)
    \/ \E noPapers \in BOOLEAN : TaskStepReturns(id, noPapers)
    \/ TaskStepRaises(id)
    \/ TaskCommit(id)
    \/ TaskRollback(id)
SpecResearchFair ==
    /\ SpecResearch
    /\ \A id \in RunIds : WF_vars(TaskRuns(id))

(* ----------------------- properties: the pipeline ---------------------- *)
SamePmid(f, g) == f # g /\ PmidOfFile(f) # NoPmid /\ PmidOfFile(f) = PmidOfFile(g)
(* An input the pipeline can turn into a record.                           *)
ValidArticle(f) ==
    /\ f \in batch
    /\ PmidOfFile(f) # NoPmid
    /\ ~InsufficientText(clean_xml_text(xml[f]))
Holding == {f \in Files : pc[f] \in {"admitted", "parse", "stages", "writing"}}
InFlight == {c \in Files \X Stages : call[c[1]][c[2]].st = "inflight"}
TwoFullRuns == phase = "idle" /\ run >= 2 /\ completedRuns = run

(* C1: after two invocations that ran to their end over the same input     *)
(* set, every valid article ID has exactly one output record (unless the   *)
(* write itself failed); and an invocation that finds an ID's output file  *)
(* sends no LLM request for that ID and leaves the file as it found it.    *)
C1_OneRecordPerId ==
    /\ \A p \in Pmids :
          (run >= 1 /\ diskAtStart[p].kind # "absent") =>
              /\ p \notin called
              /\ disk[p] = diskAtStart[p]
              /\ \A f \in Files :
                    PmidOfFile(f) = p => result[f].kind \in {"pending", "None"}
    /\ TwoFullRuns =>
          \A f \in Files :
              (ValidArticle(f) /\ writeFailsLeft = MaxWriteFailures) =>
                  disk[PmidOfFile(f)].kind = "record"

(* C2: of two tasks of one invocation whose files carry the same PMID, at  *)
(* most one runs the stages and writes the output file.                    *)
C2_CreatedOnce ==
    \A f, g \in Files :
        SamePmid(f, g) =>
            ~(result[f].kind = "processed" /\ result[g].kind = "processed")

(* C5: once the process has been terminated, every output file on disk is  *)
(* a complete record.                                                      *)
C5_NoPartialRecord ==
    (phase = "idle" /\ completedRuns < run) =>
        \A p \in Pmids : disk[p].kind \in {"absent", "record"}

(* C6: the number of articles between acquiring and releasing the article  *)
(* semaphore never exceeds the processor's MAX_CONCURRENT_ARTICLES.        *)
C6_ArticleBound == Cardinality(Holding) <= ArticleBound(variant)
C6_Witness ==
    /\ Cardinality(Holding) = ArticleBound(variant)
    /\ semQueue # <<>>
    /\ \E f \in Holding : pc[f] = "stages"

(* C7: the number of LLM requests in flight never exceeds                  *)
(* MAX_API_CALLS_PER_SECOND.                                               *)
C7_RequestBound == Cardinality(InFlight) <= MAX_API_CALLS_PER_SECOND

(* The sentinels of the summary, molecule and topic/keyword executors.     *)
IsSentinel(s, value) ==
    CASE s = 2 -> value = TextValue(EmptyText)
      [] s = 3 -> value = ListValue(<<>>)
      [] s = 4 -> value.kind = "dict" /\ value.topics = <<>>
                  /\ value.keywords = <<>>
      [] OTHER -> TRUE

(* C8: a stage executor (summary, molecules, topics/keywords) whose LLM    *)
(* call ended in a throttling signal or an error hands its sentinel to     *)
(* process_article, never an exception.                                    *)
C8_SentinelOnFailure ==
    \A f \in Files, s \in {2, 3, 4} :
        stageLog[f][s] \in {"throttled", "error"} =>
            IsSentinel(s, values[f][s])
C8_Witness ==
    /\ variant = "fast"
    /\ stageLog[2][3] = "throttled"
    /\ values[2][3] = ListValue(<<>>)

(* The record of an article all of whose stages succeed.                   *)
FullSuccessRecord(f) ==
    CompileResult(PmidOfFile(f), xml[f].name, clean_xml_text(xml[f]),
                  [s \in Stages |-> StageParse(s, GoodReply(s), PmidOfFile(f))])
OnlyMoleculesFailed(f) ==
    /\ stageLog[f][3] \in {"throttled", "error", "unparsed"}
    /\ \A s \in Stages \ {3} : stageLog[f][s] = "ok"

(* C9: when only the molecule stage failed, the article is still written,  *)
(* with molecules = [] and every other field as in a full success.         *)
C9_PartialFailure ==
    \A f \in Files :
        (OnlyMoleculesFailed(f) /\ pc[f] = "done") =>
            /\ result[f].kind = "processed"
            /\ disk[PmidOfFile(f)] = RecordFile(result[f].rec)
            /\ result[f].rec = [FullSuccessRecord(f) EXCEPT !.molecules = <<>>]
C9_Witness ==
    /\ OnlyMoleculesFailed(2)
    /\ result[2].kind = "processed"
    /\ stageLog[2][3] = "error"

(* C10: a call that gives up after throttling has slept 10 s, 20 s and     *)
(* 40 s.                                                                   *)
C10_BackoffWaits ==
    [][\A f \in Files, s \in Stages :
          (call[f][s].st = "inflight" /\ call'[f][s].st = "done"
             /\ stageLog'[f][s] = "throttled" /\ variant = "fast") =>
              call[f][s].slept = <<10, 20, 40>>]_vars

(* The text stage 1 is given to clean: full_text in the fast processor,    *)
(* combined_text (built from the sections) in the parallel one.            *)
CleanInput(f) ==
    IF variant = "fast" THEN full_text(secs[f]) ELSE combined_text(secs[f])

(* C11: when the clean stage's LLM call failed, the stage's result is the  *)
(* uncleaned input text, which is not empty.                               *)
C11_CleanFallback ==
    \A f \in Files :
        stageLog[f][1] \in {"throttled", "error"} =>
            /\ values[f][1] = TextValue(CleanInput(f))
            /\ values[f][1].text.len > 0

(* C12: the four stages of an article are started together, and the       *)
(* record is compiled and its write started only when all four have ended  *)
(* with a value.                                                           *)
C12_SubmitAllWaitAll ==
    \A f \in Files :
        /\ (\E s \in Stages : call[f][s].st # "idle") =>
               \A s \in Stages : call[f][s].st # "idle"
        /\ (pc[f] = "writing" \/ result[f].kind = "processed") =>
               \A s \in Stages :
                   call[f][s].st = "done" /\ values[f][s].kind # "pending"
C12_Witness ==
    /\ pc[2] = "writing"
    /\ stageLog[2][3] = "error"
    /\ \A s \in Stages : call[2][s].st = "done"

(* An input that cannot become a record: no PMID in its name, a document   *)
(* that does not parse, or a body shorter than the minimum.                *)
SkipInput(f) ==
    \/ xml[f].name.tag # "PMID"
    \/ ~xml[f].wellFormed
    \/ xml[f].body.len < MIN_BODY_LENGTH
RunComplete == phase = "idle" /\ run >= 1 /\ completedRuns = run

(* C13: for such an input process_article sends no LLM request, compiles   *)
(* and writes no record, and returns None without raising; the other       *)
(* articles of the batch are processed all the same.                       *)
C13_SkipWithoutEffect ==
    /\ \A f \in Files :
          SkipInput(f) =>
              /\ \A s \in Stages : call[f][s] = IdleCall
              /\ rec[f] = Pending
              /\ pc[f] \notin {"stages", "writing"}
              /\ result[f].kind \in {"pending", "None"}
              /\ pc[f] = "done" => result[f] = NoneResult
              /\ (\A g \in Files : PmidOfFile(g) = PmidOfFile(f) => SkipInput(g))
                    => (PmidOfFile(f) \notin called
                        /\ (PmidOfFile(f) # NoPmid => disk[PmidOfFile(f)] = Absent))
    /\ RunComplete =>
          \A g \in batch :
              (~SkipInput(g) /\ result[g].kind # "exception") =>
                  disk[PmidOfFile(g)].kind # "absent"
C13_Witness ==
    /\ RunComplete /\ run = 1 /\ batch = Files
    /\ \A f \in {1, 4, 5} : result[f] = NoneResult
    /\ result[6].kind = "processed"

(* The three groups of the final statistics.                               *)
Processed == {f \in batch : CountsAsProcessed(result[f])}
Skipped == {f \in batch : IsNone(result[f])}
Errors == {f \in batch : IsException(result[f])}
(* A task that had all four stage values and ended without having written. *)
SaveFailed(f) ==
    pc[f] = "done" /\ AllStagesDone(f) /\ disk[PmidOfFile(f)].kind = "absent"

(* C14: an article whose record could not be written is counted as an      *)
(* error, not as processed or skipped, and every other article of the      *)
(* batch has been handled: it ended, and unless it was an input to skip or *)
(* its own write failed, its record file exists.                           *)
C14_WriteFailureCounted ==
    RunComplete =>
        \A f \in batch :
            SaveFailed(f) =>
                /\ f \in Errors /\ f \notin Processed \cup Skipped
                /\ \A g \in batch \ {f} :
                      /\ pc[g] = "done"
                      /\ g \in Processed \cup Skipped \cup Errors
                      /\ (~SkipInput(g) /\ g \notin Errors) =>
                            disk[PmidOfFile(g)].kind # "absent"
C14_Witness ==
    /\ RunComplete /\ run = 1 /\ batch = Files
    /\ SaveFailed(6) /\ 6 \in Errors
    /\ 2 \in Processed

(* The records of the index file, and of the record files json.load can    *)
(* load.                                                                   *)
IndexedRecords == IF index.kind = "index" THEN index.records ELSE {}
LoadableRecords == { disk[p].rec : p \in {q \in Pmids : disk[q].kind = "record"} }
Unloadable == { p \in Pmids : disk[p].kind \in {"partial", "garbled"} }

(* C27: when an invocation ends, the index holds exactly the records of    *)
(* the record files that can be read and parsed; a truncated or garbled    *)
(* record file is left out and does not stop the index from being built.   *)
C27_IndexOfReadableRecords ==
    [][completedRuns' # completedRuns => IndexedRecords' = LoadableRecords']_vars

(* An invocation has ended with a record file that cannot be parsed beside *)
(* ones that can, and the index holds the latter.                          *)
C27_Witness ==
    /\ phase = "idle" /\ run > 0 /\ completedRuns = run
    /\ Unloadable # {}
    /\ index.kind = "index"
    /\ index.records = LoadableRecords

(* The articles inside "async with self.semaphore" and the calls inside   *)
(* "async with self.rate_limiter".                                         *)
InArticle == {f \in Files : pc[f] \in {"admitted", "parse", "stages", "writing"}}
InCall ==
    {fs \in Files \X Stages : call[fs[1]][fs[2]].st \in {"inflight", "sleeping"}}

(* C35: neither gate ever holds more permits than its capacity, and when   *)
(* no article task is inside the article gate and no call inside the rate  *)
(* limiter, both have all their permits and nothing waits for them.        *)
C35_GatesReleased ==
    /\ semPermits <= ArticleBound(variant)
    /\ rlPermits <= MAX_API_CALLS_PER_SECOND
    /\ (InArticle = {} /\ InCall = {}) =>
          /\ semPermits = ArticleBound(variant)
          /\ rlPermits = MAX_API_CALLS_PER_SECOND
          /\ semQueue = <<>> /\ rlQueue = <<>>
(* A wave has ended with articles that were skipped, written, and failed   *)
(* at the write, and one whose calls went through the rate limiter's queue.*)
C35_Witness ==
    /\ Running /\ Started /\ \A f \in batch : pc[f] = "done"
    /\ HasRateLimiter(variant)
    /\ \E f \in batch : result[f] = NoneResult
    /\ \E f \in batch : result[f] = ExceptionValue
    /\ \E f \in batch : result[f].kind = "processed"
    /\ semPermits = ArticleBound(variant)
    /\ rlPermits = MAX_API_CALLS_PER_SECOND

(* C34: the wave completes: every task has left the article gate and     *)
(* every call the rate limiter, with all permits of both given back.       *)
C34_EveryWaveCompletes ==
    <>(/\ \A a \in GateArticles : kPc[a] = "done"
       /\ kSem = MAX_CONCURRENT_ARTICLES /\ kSemQueue = <<>>
       /\ kRl = MAX_API_CALLS_PER_SECOND /\ kRlQueue = <<>>)
(* A call sleeps in its backoff holding a permit of the rate limiter, all  *)
(* of whose permits are taken; a stage of an admitted article waits for    *)
(* one; and a task waits for the article gate, which is closed.            *)
C34_Witness ==
    /\ kRl = 0 /\ kRlQueue # <<>>
    /\ kSem = 0 /\ kSemQueue # <<>>
    /\ \E a \in GateArticles, s \in Stages : kCall[a][s].st = "sleeping"
    /\ \E a \in GateArticles, s \in Stages :
          kPc[a] = "stages" /\ kCall[a][s].st = "queued"

(* ------------------ properties: the research-run backend --------------- *)
ActiveRuns == {id \in RunIds : runs[id].status \in {"queued", "processing"}}

(* C3: at most one research run is queued or processing.                   *)
C3_OneActiveRun == Cardinality(ActiveRuns) <= 1

(* C4: once the background task of a run whose pipeline raised has         *)
(* finished, the committed run is failed, with its error message and       *)
(* completed_at recorded.                                                  *)
C4_FailedIsPersisted ==
    \A id \in RunIds :
        taskPc[id] = "failed" =>
            /\ runs[id].status = "failed"
            /\ runs[id].error_message # "None"
            /\ runs[id].completed_at # "None"

(* The status a run has for the code that works on it: the one its        *)
(* background task's session holds while the task runs, the committed one  *)
(* otherwise.                                                              *)
RunStatus(id) ==
    IF session[id] # NoRun THEN session[id].status ELSE runs[id].status

StatusEdges ==
    { <<"none", "queued">>, <<"queued", "processing">>,
      <<"processing", "complete">>, <<"processing", "failed">> }

(* C22: a run's status changes only along queued -> processing,            *)
(* processing -> complete, processing -> failed, and failed -> queued, the *)
(* last only in a step of retry_run; a complete run never changes again.   *)
C22_StatusTransitions ==
    [][\A id \in RunIds :
          RunStatus(id)' # RunStatus(id) =>
              \/ <<RunStatus(id), RunStatus(id)'>> \in StatusEdges
              \/ /\ RunStatus(id) = "failed"
                 /\ RunStatus(id)' = "queued"
                 /\ RetryRun(id)]_vars

(* C23: create_run creates a run, queued and with its pipeline scheduled,  *)
(* only while no run is queued or processing; it answers 409 and changes   *)
(* nothing when one is, and goes on to create the run when none is.        *)
C23_CreateRunRejectedWhileActive ==
    [][/\ \A id \in RunIds :
             (runs[id] = NoRun /\ runs'[id] # NoRun) =>
                 /\ ~check_concurrent_run
                 /\ runs'[id] = NewRun
                 /\ taskPc'[id] = "scheduled"
                 /\ lastStatus' = 201
       /\ CreateRunCheck =>
             IF check_concurrent_run
             THEN lastStatus' = 409 /\ runs' = runs /\ taskPc' = taskPc
                  /\ passedCheck' = passedCheck
             ELSE passedCheck' = passedCheck + 1]_vars

C33_RunsReachTerminalStatus ==
    \A id \in RunIds :
        (runs[id].status = "queued") ~>
            (runs[id].status \in {"complete", "failed"})

(* -------------------- properties: the registry check ------------------- *)
(* C15: after a fix pass, every molecule whose lookup ended in an error is *)
(* still in the record's molecule list, and the molecules missing from the *)
(* list are exactly those the registry reported as not found.              *)
C15_UnknownKept ==
    (vMode = "fix" /\ vResult # NoneResult) =>
        /\ \A m \in Range(vResult.unknown) : m \in Range(vFile.molecules)
        /\ \A m \in Range(vBefore) :
              m \notin Range(vFile.molecules) => m \in Range(vResult.invalid)

(* C28: within one pass, once a lookup of a name has returned found or not *)
(* found, every later lookup of the same name, in whatever case it is      *)
(* written, returns that answer and sends no request.                      *)
C28_ConclusiveAnswerCached ==
    \A i, j \in 1..Len(vLookups) :
        ( /\ i < j
          /\ lower(vLookups[i].name) = lower(vLookups[j].name)
          /\ vLookups[i].result.found \in {"True", "False"} ) =>
            /\ vLookups[j].result = vLookups[i].result
            /\ ~vLookups[j].requested

(* A pass looked the same name up twice, written in different case, after  *)
(* a conclusive answer.                                                    *)
C28_Witness ==
    \E i, j \in 1..Len(vLookups) :
        /\ i < j
        /\ vLookups[i].name # vLookups[j].name
        /\ lower(vLookups[i].name) = lower(vLookups[j].name)
        /\ vLookups[i].requested
        /\ vLookups[i].result.found \in {"True", "False"}
        /\ vLookups[j].result = vLookups[i].result
        /\ ~vLookups[j].requested

(* ------------------ properties: the source-grounding pass -------------- *)
(* The three tests on a normalised entity and a normalised source text.    *)
Compact(text) == remove_char(remove_char(text, " "), "-")
ExactMatch(term, source) == IsSubstring(term, source)
HyphenSpaceInsensitiveMatch(term, source) ==
    IsSubstring(Compact(term), Compact(source))
TokenMatch(term, source) ==
    /\ Len(SplitWords(term)) > 1
    /\ \A w \in Range(SplitWords(term)) : Len(w) > 3 => IsSubstring(w, source)
Grounded(term, source) ==
    \/ ExactMatch(term, source)
    \/ HyphenSpaceInsensitiveMatch(term, source)
    \/ TokenMatch(term, source)
(* The records the latest pass judged against a source text.               *)
Judged(f) ==
    /\ gResults[f] # NoneResult
    /\ "error" \notin DOMAIN gResults[f]
    /\ gScript = "xml" => ~gResults[f].no_xml

(* C16: a pass keeps an entity exactly when, after normalisation, it is in *)
(* the source as a substring, or as a substring once hyphens and spaces    *)
(* are ignored, or it has several words and each word longer than three    *)
(* characters is in the source; every other entity is in the removed list. *)
C16_GroundingRule ==
    \A f \in 1..2 :
        Judged(f) =>
            /\ gScript = "verify" =>
                 LET source == normalize_text(read_xml_text(gXml[f]))
                 IN  /\ \A e \in Range(gBefore[f].molecules) :
                           e \notin Range(gResults[f].molecules_removed)
                               <=> Grounded(normalize_text(e), source)
                     /\ \A e \in Range(gBefore[f].keywords) :
                           e \notin Range(gResults[f].keywords_removed)
                               <=> Grounded(normalize_text(e), source)
            /\ gScript = "xml" =>
                 LET source == normalize_text_xml(extract_text_from_xml(gXml[f]))
                 IN  \A e \in Range(gBefore[f].molecules) :
                         e \notin Range(gResults[f].invalid)
                             <=> Grounded(normalize_text_xml(e), source)

(* a holds the elements of b that it keeps, in b's order *)
RECURSIVE IsSubsequence(_, _)
IsSubsequence(a, b) ==
    IF a = <<>> THEN TRUE
    ELSE IF b = <<>> THEN FALSE
    ELSE IF Head(a) = Head(b) THEN IsSubsequence(Tail(a), Tail(b))
    ELSE IsSubsequence(a, Tail(b))
(* The removed lists the latest pass recorded for a record: those of the   *)
(* result verify_summary returned, or the removed_molecules the XML check  *)
(* wrote into the record.                                                  *)
RecordedMolecules(f) ==
    IF gScript = "xml" THEN gDir[f].molecules_validation.removed_molecules
    ELSE IF gResults[f] # NoneResult /\ "error" \notin DOMAIN gResults[f]
    THEN gResults[f].molecules_removed
    ELSE <<>>
RecordedKeywords(f) ==
    IF gScript = "verify" /\ gResults[f] # NoneResult
       /\ "error" \notin DOMAIN gResults[f]
    THEN gResults[f].keywords_removed
    ELSE <<>>

(* C17: after a fix pass, the molecules and keywords of each record are    *)
(* those it held before, in their order, less some; and each one it no     *)
(* longer holds is in the removed list the pass recorded for the record.   *)
C17_NothingSilentlyDropped ==
    gMode = "fix" =>
        \A f \in 1..2 :
            /\ IsSubsequence(gDir[f].molecules, gBefore[f].molecules)
            /\ IsSubsequence(gDir[f].keywords, gBefore[f].keywords)
            /\ \A e \in Range(gBefore[f].molecules) :
                  e \in Range(gDir[f].molecules)
                  \/ e \in Range(RecordedMolecules(f))
            /\ \A e \in Range(gBefore[f].keywords) :
                  e \in Range(gDir[f].keywords)
                  \/ e \in Range(RecordedKeywords(f))
(* A fix pass of the verification script took a molecule and a keyword out *)
(* of the first record and left a molecule in it.                          *)
C17_Witness ==
    /\ gMode = "fix" /\ gScript = "verify"
    /\ gDir[1].molecules # <<>>
    /\ Len(gDir[1].molecules) < Len(gBefore[1].molecules)
    /\ Len(gDir[1].keywords) < Len(gBefore[1].keywords)

(* C18: a dry run and a fix pass of the verification script that started   *)
(* from the same summary files report the same totals, and the dry run     *)
(* leaves every file as it was.                                            *)
C18_SameStatistics ==
    /\ (gRuns.dry.ran /\ gRuns.fix.ran /\ gRuns.dry.start = gRuns.fix.start)
           => gRuns.dry.stats = gRuns.fix.stats
    /\ (gScript = "verify" /\ gMode = "dry") => gDir = gBefore

(* C38: a fix pass of verify_and_fix_summaries that follows a fix pass of *)
(* it over the same documents removes no entity and rewrites no record.    *)
C38_FixPassIdempotent ==
    [][(gScript = "verify" /\ gMode = "fix" /\ verify_main(TRUE)) =>
          /\ gDir' = gDir
          /\ \A f \in 1..2 :
                (gResults'[f] # NoneResult /\ "error" \notin DOMAIN gResults'[f]) =>
                    /\ gResults'[f].molecules_removed = <<>>
                    /\ gResults'[f].keywords_removed = <<>>
                    /\ ~gResults'[f].fixed]_vars
(* Two fix passes have run: the first took entities out of the first      *)
(* record and left it a molecule, the second found the records as the      *)
(* first left them.                                                        *)
C38_Witness ==
    /\ gPasses = 2 /\ gScript = "verify" /\ gMode = "fix"
    /\ gRuns.fix.ran
    /\ gRuns.fix.start # gStart
    /\ \A f \in 1..2 : gRuns.fix.start[f].molecules_validation = NotValidated
    /\ gRuns.fix.start[1].molecules # <<>>
    /\ gDir = gRuns.fix.start

(* The source document gives the script of the latest pass no text: it is *)
(* missing, or the script's reader returns the empty text.                 *)
NoSourceText(doc) ==
    \/ ~doc.exists
    \/ gScript = "verify" /\ read_xml_text(doc) = <<>>
    \/ gScript = "xml" /\ extract_text_from_xml(doc) = <<>>

(* C39: a pass, in fix mode too, leaves the record of a file whose source  *)
(* document is missing, unreadable or without text as it was.              *)
C39_NoSourceNoChange ==
    \A f \in 1..2 :
        (gScript # "none" /\ NoSourceText(gXml[f])) => gDir[f] = gBefore[f]

(* --------------- properties: the canonical molecule store -------------- *)
(* C19: no two rows of the molecule table have the same normalized name;   *)
(* and when only "Nitrate" and "nitrate " were inserted, the table has at  *)
(* most one row.                                                           *)
C19_OneRecordPerName ==
    /\ \A m1, m2 \in small_molecules :
          m1.normalized_name = m2.normalized_name => m1.id = m2.id
    /\ (\A t \in resolved : t[2].name \in {Nitrate, nitrate_space})
          => Cardinality(small_molecules) <= 1
(* "Nitrate" was inserted and committed, "nitrate " was inserted after it, *)
(* and the table has the one row.                                          *)
C19_Witness ==
    /\ \E m \in small_molecules : m.name = Nitrate /\ m.committed
    /\ \E t \in resolved : t[2].name = nitrate_space
    /\ Cardinality(small_molecules) = 1

(* The rule of identity between two extracted molecules.                   *)
SameByRule(e1, e2) ==
    \/ e1.normalized_name = e2.normalized_name
    \/ e1.cas_number # NoCas /\ e2.cas_number # NoCas
       /\ e1.cas_number = e2.cas_number

(* C20: two extracted molecules were resolved to the same row exactly when *)
(* their normalized names are equal or both have a CAS number and the two  *)
(* numbers are equal.                                                      *)
C20_SameRecordIffRule ==
    \A t1, t2 \in resolved : (t1[3] = t2[3]) <=> SameByRule(t1[2], t2[2])

(* C21: when a stored molecule resolves to a row that existed already, no  *)
(* row is added, the run's link to that row carries the new relevance      *)
(* score, and the paper's link to it carries the new context excerpt.      *)
C21_ResightingUpdatesLinks ==
    sighting.existed =>
        /\ Cardinality(small_molecules) = sighting.rows_before
        /\ run_molecules[sighting.molecule_id] = sighting.relevance_score
        /\ \E l \in paper_links :
              /\ l.molecule_id = sighting.molecule_id
              /\ l.paper_id = sighting.paper_id
              /\ l.context_excerpt = sighting.context_excerpt

(* The scores of the sightings of a molecule in the run.                   *)
ScoresSeen(id) == {t[2] : t \in {u \in seen_scores : u[1] = id}}

(* C37: the run has one link per molecule it sighted, whose score is the   *)
(* highest score of the molecule's sightings and lies between 0 and 1.     *)
C37_LinkHoldsMaxScore ==
    /\ DOMAIN run_molecules = {t[1] : t \in seen_scores}
    /\ \A id \in DOMAIN run_molecules :
          /\ run_molecules[id] \in ScoresSeen(id)
          /\ \A score \in ScoresSeen(id) : score <= run_molecules[id]
          /\ 0 <= run_molecules[id] /\ run_molecules[id] <= 10
(* A molecule was sighted again with a lower score than its link holds,    *)
(* and scores answered outside the range have been stored.                 *)
C37_Witness ==
    /\ sighting.existed
    /\ sighting.relevance_score < run_molecules[sighting.molecule_id]
    /\ run_molecules[sighting.molecule_id] = 10
    /\ sighting.relevance_score = 0

(* C36: with one writer, storing extracted molecules never fails with a   *)
(* violation of a unique constraint of small_molecules.                    *)
C36_NoConstraintError == storePc[1] # "failed"

(* ------------------ properties: reading the answers -------------------- *)
(* The first balanced span of a text: from the first opening character     *)
(* whose nesting closes again, to the character that closes it; the empty  *)
(* sequence when there is none.                                            *)
Depth(open, close, text, i, j) ==
    Cardinality({k \in i..j : text[k] = open})
        - Cardinality({k \in i..j : text[k] = close})

FirstBalancedSpan(open, close, text) ==
    LET starts == { i \in 1..Len(text) :
                       /\ text[i] = open
                       /\ \E j \in i..Len(text) :
                             Depth(open, close, text, i, j) = 0 }
    IN  IF starts = {} THEN <<>>
        ELSE LET i == CHOOSE a \in starts : \A b \in starts : a <= b
                 j == CHOOSE a \in i..Len(text) :
                         /\ Depth(open, close, text, i, a) = 0
                         /\ \A b \in i..(a - 1) :
                               Depth(open, close, text, i, b) # 0
             IN  SubSeq(text, i, j)

Parsable(span) == span # <<>> /\ json_loads(span) # JSONDecodeError

Get(d, key) == IF key \in DOMAIN d.dict THEN d.dict[key] ELSE PyList(<<>>)

(* C25: stage 3 returns the array parsed from the first balanced [...]     *)
(* span of the response and stage 4 the topics and keywords of the object  *)
(* parsed from its first balanced {...} span, whatever stands before or    *)
(* after the span; without a span, or with one that does not parse, they   *)
(* return the empty list, respectively empty topics and keywords.          *)
C25_FirstBalancedSpan ==
    /\ extracted_molecules # NotParsed =>
          LET span == FirstBalancedSpan("[", "]", response_text)
          IN  extracted_molecules =
                  IF Parsable(span) THEN json_loads(span) ELSE PyList(<<>>)
    /\ topics_data # NotParsed =>
          LET span == FirstBalancedSpan("{", "}", response_text)
          IN  \A key \in {"topics", "keywords"} :
                  Get(topics_data, key) =
                      IF Parsable(span) THEN Get(json_loads(span), key)
                      ELSE PyList(<<>>)

(* -------------------- properties: loading an article ------------------- *)
(* All text under the sections with a tag, in document order.              *)
RECURSIVE TextUnder(_)
TextUnder(sections) ==
    IF sections = <<>> THEN <<>>
    ELSE itertext(Head(sections)) \o TextUnder(Tail(sections))

(* C26: the abstract and the body the loader returns are all the text      *)
(* under the section, text inside elements and text trailing nested        *)
(* elements alike, in document order, and nothing from outside it.         *)
C26_SectionTextInDocumentOrder ==
    (text_sections # NotLoaded /\ document # NotWellFormed) =>
        /\ text_sections.abstract = TextUnder(findall(document, "abstract"))
        /\ text_sections.body = TextUnder(findall(document, "body"))

(* --------------------- properties: one LLM call ------------------------ *)
(* The requests the call has made.                                         *)
Made == IF cPc = "request" THEN cAttempt ELSE cAttempt + 1

(* C29: the call makes at most max_retries requests; every request but the *)
(* latest ended in the throttling outcome, and so did the latest when the  *)
(* call goes on to another one; a completion is returned as it is.         *)
C29_RetryOnlyAfterThrottling ==
    /\ Made <= max_retries
    /\ \A i \in 1..(Made - 1) : cOutcomes[i].kind = "throttling"
    /\ cPc = "sleeping" => cOutcomes[Made].kind = "throttling"
    /\ (cPc = "returned" /\ cReturned # NotReturned) =>
          cReturned = IF cOutcomes[Made].kind = "success"
                      THEN cOutcomes[Made].reply ELSE EmptyReply

(* ------------------------ properties: the waves ------------------------ *)
WaveOf(a) == (a - 1) \div WaveSize
Begun(a) == wTask[a] # "none"

(* C30: no article of a later wave has begun before every article of the   *)
(* waves before it has finished, as processed, skipped or errored; and at  *)
(* most MAX_CONCURRENT_ARTICLES articles are running at a time.            *)
C30_WavesInSequence ==
    /\ \A a, b \in Articles :
          (WaveOf(a) < WaveOf(b) /\ Begun(b)) => wTask[a] \in Finished
    /\ Cardinality({a \in Articles : wTask[a] = "running"})
          <= MAX_CONCURRENT_ARTICLES

(* The second wave is running as many articles at once as the bound        *)
(* allows, after a first wave in which an article had to wait and whose    *)
(* articles ended in all three ways.                                       *)
C30_Witness ==
    /\ Cardinality({a \in Articles : WaveOf(a) = 1 /\ wTask[a] = "running"})
          = MAX_CONCURRENT_ARTICLES
    /\ \A a \in Articles : WaveOf(a) = 0 => wTask[a] \in Finished
    /\ \A outcome \in Finished :
          \E a \in Articles : WaveOf(a) = 0 /\ wTask[a] = outcome

(* ------------------ properties: the requests' texts -------------------- *)
(* The length of the longer of the two truncation markers.                 *)
MarkerLength == 21

(* C31: the article text in the request of every stage is at most the      *)
(* budget of 300000 characters plus the truncation marker long.            *)
C31_TextWithinBudget ==
    \A s \in Stages :
        tSent[s] # NotSent => tSent[s].len <= max_chars + MarkerLength
====
